---- MODULE Spec2Model ----
(***************************************************************************)
(* Model of the MDX sanitizer of slim_doc_generator/utils/helpers.py.       *)
(* Spec runs escape_mdx_special_characters line by line on a text, and then *)
(* once more on the text it returned.  SpecClean runs clean_api_doc on a    *)
(* file, SpecTwo two invocations of the sanitizer side by side, SpecGenerate *)
(* SlimDocGenerator.generate and SpecRevise SiteReviser.revise.  A text is  *)
(* a sequence of characters, each a one-character string.                   *)
(***************************************************************************)
EXTENDS Integers, Sequences, FiniteSets, TLC

VARIABLES
    content,          \* the argument of the current call
    calls,            \* how many calls have been started: 1, or 2 once the
                      \* returned text has been passed in again
    pc,               \* "call", "loop" or "done"
    lines,            \* content.split('\n')
    i,                \* the index of the line the loop is at
    in_code_block,
    processed_lines,
    result,           \* the returned text
    \* clean_api_doc
    api_doc_exists,   \* os.path.exists(api_doc_path)
    api_doc_perm,     \* what open() allows on the file: "rw", "r" or "w"
    api_doc,          \* the text of the file at api_doc_path
    cl_pc,            \* "idle", "call", "read", "fix1", "fix2", "fix3", "write", "done"
    cl_content,       \* the local content
    cl_lines,         \* the local lines
    cl_i,             \* the index of the line the loop of fix 2 is at
    cl_in_code_block,
    cl_error,         \* the except branch has logged an error
    cl_opens,         \* the modes of the open() calls made, in order
    \* a second invocation of escape_mdx_special_characters, with its own locals
    content2,
    calls2,           \* how many invocations have been started in its place
    pc2,              \* "idle", "call", "loop" or "done"
    lines2,
    i2,
    in_code_block2,
    processed_lines2,
    result2,
    \* SlimDocGenerator.generate
    ai_model,         \* use_ai: the model argument, or no text when AI is off
    gen_pc,           \* "idle", "clone", "analyze", "makedirs", "generate",
                      \* "enhance", "write", "index", "config", "sidebars",
                      \* "verify" or "done"
    section,          \* the place in sections of the loop
    gen_content,      \* the local content
    docs_dir,         \* the docs directory exists
    docs,             \* the section files of the docs directory
    index_links,      \* the sections index.md links to
    sidebar_sections, \* the argument update_sidebars was given
    called,           \* the calls made on the collaborators, in order
    cloned,           \* what clone_template returned: "none", "True" or "False"
    raised,           \* a step has raised
    gen_result,       \* "none", "True" or "False"
    enh_content,      \* the content argument of the last call of enhance
    enh_outcome,      \* what the provider did in the last call of enhance
    \* SiteReviser.revise
    rv_docs_dir,      \* os.path.exists(self.docs_dir)
    rv_pages_dir,     \* os.path.exists(self.pages_dir)
    rv_ai_enhancer,   \* an AI enhancer was given
    rv_overview,      \* the file docs/overview.md
    rv_pc,            \* "idle", "call", "read", "index_js", "features", "config",
                      \* "figure", "return" or "done"
    rv_overview_content, \* the local overview_content
    rv_overall_success,
    rv_attempts,      \* the updates attempted, in order, each with its outcome
    rv_result         \* "none", "True" or "False"

sanvars == <<content, calls, pc, lines, i, in_code_block, processed_lines, result>>
clvars == <<api_doc_exists, api_doc_perm, api_doc, cl_pc, cl_content, cl_lines,
            cl_i, cl_in_code_block, cl_error, cl_opens>>
twovars == <<content2, calls2, pc2, lines2, i2, in_code_block2, processed_lines2, result2>>
genvars == <<ai_model, gen_pc, section, gen_content, docs_dir, docs, index_links,
             sidebar_sections, called, cloned, raised, gen_result, enh_content,
             enh_outcome>>
revvars == <<rv_docs_dir, rv_pages_dir, rv_ai_enhancer, rv_overview, rv_pc,
             rv_overview_content, rv_overall_success, rv_attempts, rv_result>>
vars == <<sanvars, clvars, twovars, genvars, revvars>>

\* What a step of the first invocation, and a step of clean_api_doc, leave alone.
sanrest == <<clvars, twovars, genvars, revvars>>
clrest == <<sanvars, twovars, genvars, revvars>>

\* ------------------------------------------------------------ characters

\* The backtick: a TLA+ string cannot hold one, so it has a name.
BT == "BACKTICK"
BS == "\\"
NL == "\n"

LowerSeq ==
    <<"a","b","c","d","e","f","g","h","i","j","k","l","m",
      "n","o","p","q","r","s","t","u","v","w","x","y","z">>
UpperSeq ==
    <<"A","B","C","D","E","F","G","H","I","J","K","L","M",
      "N","O","P","Q","R","S","T","U","V","W","X","Y","Z">>
Lowers == {LowerSeq[k] : k \in 1..Len(LowerSeq)}
Uppers == {UpperSeq[k] : k \in 1..Len(UpperSeq)}
Digits == {"0","1","2","3","4","5","6","7","8","9"}

\* A character that a TLA+ string cannot hold (one after U+00FF) has a name of
\* more than two characters.  The patterns tell such a character by its class
\* only: the name of one that \w matches starts with "w:", the name of one
\* that \s matches with "s:" (as in "w:U+0663", "s:U+2028").
NamedAs(c, class) == Len(c) > 2 /\ SubSeq(c, 1, 2) = class

\* The characters from U+0080 to U+00FF that \w matches in a str pattern.
Latin1Word ==
    {"ª", "²", "³", "µ", "¹", "º", "¼", "½", "¾", "À", "Á", "Â", "Ã", "Ä", "Å", "Æ",
     "Ç", "È", "É", "Ê", "Ë", "Ì", "Í", "Î", "Ï", "Ð", "Ñ", "Ò", "Ó", "Ô", "Õ", "Ö",
     "Ø", "Ù", "Ú", "Û", "Ü", "Ý", "Þ", "ß", "à", "á", "â", "ã", "ä", "å", "æ", "ç",
     "è", "é", "ê", "ë", "ì", "í", "î", "ï", "ð", "ñ", "ò", "ó", "ô", "õ", "ö", "ø",
     "ù", "ú", "û", "ü", "ý", "þ", "ÿ"}

\* The characters up to U+00FF that \s matches in a str pattern and that have
\* no escape in a TLA+ string: U+000B, U+001C to U+001F, U+0085, U+00A0.
Latin1Space == {"", "", "", "", "", "", " "}

\* [A-Za-z]
IsLetter(c) == c \in Lowers \cup Uppers
\* [A-Za-z0-9_]
IsAsciiWord(c) == IsLetter(c) \/ c \in Digits \/ c = "_"
\* \w in a str pattern: the Unicode alphanumerics and the underscore
IsWord(c) == IsAsciiWord(c) \/ c \in Latin1Word \/ NamedAs(c, "w:")
\* \s in a str pattern, and the characters str.strip() removes: Unicode whitespace
IsSpace(c) ==
    c \in {" ", "\t", "\n", "\r", "\f"} \/ c \in Latin1Space \/ NamedAs(c, "s:")
\* [A-Za-z0-9_.-]
IsNameChar(c) == IsAsciiWord(c) \/ c \in {".", "-"}

\* str.lower() on one character
LowerChar(c) ==
    IF c \in Uppers
    THEN LowerSeq[CHOOSE k \in 1..Len(UpperSeq) : UpperSeq[k] = c]
    ELSE c
\* str.lower()
Lower(s) == [k \in 1..Len(s) |-> LowerChar(s[k])]

\* The text of a string.
Chars(s) == [k \in 1..Len(s) |-> SubSeq(s, k, k)]

\* ------------------------------------------------------------ str helpers

\* What f.read() returns for a file opened in text mode that holds text:
\* universal newlines, every \r\n and every other \r has become \n.
universal_newlines(text) ==
    LET keep == SelectSeq([k \in 1..Len(text) |-> k],
                          LAMBDA k : ~(text[k] = "\n" /\ k > 1 /\ text[k - 1] = "\r"))
    IN [n \in 1..Len(keep) |-> IF text[keep[n]] = "\r" THEN "\n" ELSE text[keep[n]]]

\* The smallest index k >= from with s[k] = c, or 0 when there is none.
IndexFrom(s, c, from) ==
    IF \E k \in from..Len(s) : s[k] = c
    THEN CHOOSE k \in from..Len(s) : s[k] = c /\ \A j \in from..(k - 1) : s[j] # c
    ELSE 0

\* content.split('\n')
RECURSIVE Split(_)
Split(s) ==
    LET k == IndexFrom(s, NL, 1) IN
    IF k = 0 THEN <<s>>
    ELSE <<SubSeq(s, 1, k - 1)>> \o Split(SubSeq(s, k + 1, Len(s)))

\* '\n'.join(lines)
RECURSIVE Join(_)
Join(ls) ==
    IF ls = <<>> THEN <<>>
    ELSE IF Len(ls) = 1 THEN ls[1]
    ELSE ls[1] \o <<NL>> \o Join(Tail(ls))

\* str.replace(c, r) for a one-character c
RECURSIVE Replace(_, _, _)
Replace(s, c, r) ==
    IF s = <<>> THEN <<>>
    ELSE (IF s[1] = c THEN r ELSE <<s[1]>>) \o Replace(Tail(s), c, r)

\* re.sub of a one-character pattern by its backslash-prefixed form: a
\* backslash goes before every position of hits.
RECURSIVE InsertBefore(_, _, _)
InsertBefore(text, hits, k) ==
    IF k > Len(text) THEN <<>>
    ELSE (IF k \in hits THEN <<BS, text[k]>> ELSE <<text[k]>>)
         \o InsertBefore(text, hits, k + 1)

\* ------------------------------------------------------------ _is_common_html_tag

common_tags == {
    \* Block elements
    Chars("div"), Chars("p"), Chars("h1"), Chars("h2"), Chars("h3"), Chars("h4"), Chars("h5"), Chars("h6"), Chars("header"), Chars("footer"), Chars("main"), Chars("section"), Chars("article"),
    Chars("aside"), Chars("nav"), Chars("figure"), Chars("figcaption"), Chars("blockquote"), Chars("pre"), Chars("code"), Chars("ul"), Chars("ol"), Chars("li"), Chars("dl"), Chars("dt"),
    Chars("dd"), Chars("table"), Chars("thead"), Chars("tbody"), Chars("tr"), Chars("td"), Chars("th"), Chars("form"), Chars("fieldset"), Chars("legend"), Chars("hr"),
    \* Inline elements
    Chars("a"), Chars("span"), Chars("strong"), Chars("em"), Chars("i"), Chars("b"), Chars("u"), Chars("s"), Chars("sub"), Chars("sup"), Chars("mark"), Chars("q"), Chars("cite"), Chars("time"),
    Chars("address"), Chars("abbr"), Chars("dfn"), Chars("code"), Chars("var"), Chars("samp"), Chars("kbd"), Chars("data"), Chars("small"), Chars("br"), Chars("wbr"), Chars("img"),
    Chars("picture"), Chars("source"), Chars("iframe"), Chars("embed"), Chars("object"), Chars("param"), Chars("audio"), Chars("video"), Chars("track"), Chars("canvas"),
    Chars("map"), Chars("area"), Chars("math"), Chars("svg"),
    \* Form elements
    Chars("input"), Chars("button"), Chars("select"), Chars("option"), Chars("optgroup"), Chars("textarea"), Chars("label"), Chars("datalist"), Chars("output"),
    Chars("progress"), Chars("meter")
}

\* A tag policy that knows the element names only, not the uppercase rule.
is_common_html_tag_by_name_only(tag_name) == Lower(tag_name) \in common_tags

is_common_html_tag(tag_name) ==
    \/ Lower(tag_name) \in common_tags
    \/ (IF tag_name # <<>> THEN tag_name[1] \in Uppers ELSE FALSE)

\* ------------------------------------------------------------ _escape_special_chars

\* re.sub(r'(?<!\\){', '\\{', text)
sub_open_brace(text) ==
    InsertBefore(text,
        {k \in 1..Len(text) : text[k] = "{" /\ ~(k > 1 /\ text[k - 1] = BS)}, 1)

\* re.sub(r'(?<!\\)}', '\\}', text)
sub_close_brace(text) ==
    InsertBefore(text,
        {k \in 1..Len(text) : text[k] = "}" /\ ~(k > 1 /\ text[k - 1] = BS)}, 1)

\* re.sub(r'(?<!\\)<(?![a-zA-Z\/])', '\\<', text)
sub_lt(text) ==
    InsertBefore(text,
        {k \in 1..Len(text) :
            /\ text[k] = "<"
            /\ ~(k > 1 /\ text[k - 1] = BS)
            /\ ~(k < Len(text) /\ (IsLetter(text[k + 1]) \/ text[k + 1] = "/"))}, 1)

\* A rule for '>' that spares the arrow as well: r'(?<![a-zA-Z\/-])(?<!\\)>'
sub_gt_sparing_arrows(text) ==
    InsertBefore(text,
        {k \in 1..Len(text) :
            /\ text[k] = ">"
            /\ ~(k > 1 /\ (IsLetter(text[k - 1]) \/ text[k - 1] \in {"/", "-"}))
            /\ ~(k > 1 /\ text[k - 1] = BS)}, 1)

\* re.sub(r'(?<![a-zA-Z\/])(?<!\\)>', '\\>', text)
sub_gt(text) ==
    InsertBefore(text,
        {k \in 1..Len(text) :
            /\ text[k] = ">"
            /\ ~(k > 1 /\ (IsLetter(text[k - 1]) \/ text[k - 1] = "/"))
            /\ ~(k > 1 /\ text[k - 1] = BS)}, 1)

\* An escaper that leaves braces alone.
escape_special_chars_brackets_only(text) == sub_gt(sub_lt(text))

escape_special_chars(text) == sub_gt(sub_lt(sub_close_brace(sub_open_brace(text))))

\* ------------------------------------------------------------ _process_text

\* The last index of the run of [A-Za-z0-9_.-] that holds index k.
RECURSIVE NameEnd(_, _)
NameEnd(text, k) ==
    IF k < Len(text) /\ IsNameChar(text[k + 1]) THEN NameEnd(text, k + 1) ELSE k

\* r'<([A-Za-z][A-Za-z0-9_.-]*)(?:\s+[^>]*)?>' tried at index p: the index of
\* the closing '>' of the match, or 0 when the pattern does not match at p.
TagMatchEnd(text, p) ==
    IF text[p] = "<" /\ p < Len(text) /\ IsLetter(text[p + 1])
    THEN LET e == NameEnd(text, p + 1) IN
         IF e < Len(text) /\ text[e + 1] = ">" THEN e + 1
         ELSE IF e < Len(text) /\ IsSpace(text[e + 1]) THEN IndexFrom(text, ">", e + 2)
         ELSE 0
    ELSE 0

\* list(re.finditer(tag pattern, text)) from index pos on: the matches left to
\* right, not overlapping, each <<start, end, tag_name>>.
RECURSIVE tag_matches(_, _)
tag_matches(text, pos) ==
    IF pos > Len(text) THEN <<>>
    ELSE LET end == TagMatchEnd(text, pos) IN
         IF end = 0 THEN tag_matches(text, pos + 1)
         ELSE <<<<pos, end, SubSeq(text, pos + 1, NameEnd(text, pos + 1))>>>>
              \o tag_matches(text, end + 1)

\* A preserve branch that still escapes the braces of the tag.
preserved_tag_braces_escaped(tag) == sub_close_brace(sub_open_brace(tag))

\* result.append(text[start:end]) for a tag that is preserved
preserved_tag(tag) == tag

\* An escape branch that rewrites the first and the last character of the tag only.
escaped_tag_outer_only(tag) ==
    <<BS, "<">> \o SubSeq(tag, 2, Len(tag) - 1) \o <<BS, ">">>

\* An escape branch that writes the brackets of the tag as HTML entities.
escaped_tag_as_entities(tag) == Replace(Replace(tag, "<", Chars("&lt;")), ">", Chars("&gt;"))

\* text[start:end].replace('<', '\\<').replace('>', '\\>')
escaped_tag(tag) == Replace(Replace(tag, "<", <<BS, "<">>), ">", <<BS, ">">>)

\* The loop over tag_matches and the remaining text; current_pos is the index
\* of the first character not yet emitted.
RECURSIVE process_tag_matches(_, _, _)
process_tag_matches(text, matches, current_pos) ==
    IF matches = <<>>
    THEN IF current_pos <= Len(text)
         THEN escape_special_chars(SubSeq(text, current_pos, Len(text)))
         ELSE <<>>
    ELSE LET start == matches[1][1]
             end == matches[1][2]
             tag_name == matches[1][3]
             before == IF start > current_pos
                       THEN escape_special_chars(SubSeq(text, current_pos, start - 1))
                       ELSE <<>>
             tag == IF is_common_html_tag(tag_name)
                    THEN preserved_tag(SubSeq(text, start, end))
                    ELSE escaped_tag(SubSeq(text, start, end))
         IN before \o tag \o process_tag_matches(text, Tail(matches), end + 1)

process_text(text) ==
    LET matches == tag_matches(text, 1) IN
    IF matches = <<>> THEN escape_special_chars(text)
    ELSE process_tag_matches(text, matches, 1)

\* ------------------------------------------------------------ _process_line

\* re.match(r'^#{1,6}\s', line)
heading_match(line) ==
    \E k \in 1..6 :
        /\ Len(line) > k
        /\ \A j \in 1..k : line[j] = "#"
        /\ IsSpace(line[k + 1])

\* re.match(r'^>\s', line)
blockquote_match(line) == Len(line) >= 2 /\ line[1] = ">" /\ IsSpace(line[2])

\* re.match(r'^[-*+]\s', line)
bullet_match(line) == Len(line) >= 2 /\ line[1] \in {"-", "*", "+"} /\ IsSpace(line[2])

is_structural(line) == heading_match(line) \/ blockquote_match(line) \/ bullet_match(line)

\* A span pattern that lets an unmatched backtick open a span that runs to the
\* end of the line: r'`[^`]+(`|$)'
RECURSIVE inline_code_spans_open_ended(_, _)
inline_code_spans_open_ended(line, pos) ==
    IF pos > Len(line) THEN <<>>
    ELSE IF line[pos] = BT
         THEN LET q == IndexFrom(line, BT, pos + 1) IN
              IF q > pos + 1
              THEN <<<<pos, q>>>> \o inline_code_spans_open_ended(line, q + 1)
              ELSE IF q = 0 /\ pos < Len(line)
                   THEN <<<<pos, Len(line)>>>>
                   ELSE inline_code_spans_open_ended(line, pos + 1)
         ELSE inline_code_spans_open_ended(line, pos + 1)

\* re.finditer(r'`[^`]+`', line) from index pos on: the spans <<start, end>>.
RECURSIVE inline_code_spans(_, _)
inline_code_spans(line, pos) ==
    IF pos > Len(line) THEN <<>>
    ELSE IF line[pos] = BT
         THEN LET q == IndexFrom(line, BT, pos + 1) IN
              IF q > pos + 1
              THEN <<<<pos, q>>>> \o inline_code_spans(line, q + 1)
              ELSE inline_code_spans(line, pos + 1)
         ELSE inline_code_spans(line, pos + 1)

\* A segmenter that hands inline code to the escaper like prose.
inline_code_escaped(code) == escape_special_chars(code)

\* parts.append(line[start:end]) for an inline code span
inline_code(code) == code

\* The loop over the inline code spans and the remaining text.
RECURSIVE process_spans(_, _, _)
process_spans(line, spans, current_pos) ==
    IF spans = <<>>
    THEN IF current_pos <= Len(line)
         THEN process_text(SubSeq(line, current_pos, Len(line)))
         ELSE <<>>
    ELSE LET start == spans[1][1]
             end == spans[1][2]
             before == IF start > current_pos
                       THEN process_text(SubSeq(line, current_pos, start - 1))
                       ELSE <<>>
         IN before \o inline_code(SubSeq(line, start, end))
                   \o process_spans(line, Tail(spans), end + 1)

\* A line processor that exempts the marker of a heading only and escapes the
\* text after it.
process_line_heading_text_escaped(line) ==
    IF blockquote_match(line) \/ bullet_match(line) THEN line
    ELSE IF heading_match(line)
         THEN LET n == CHOOSE k \in 1..6 :
                       /\ Len(line) > k
                       /\ \A j \in 1..k : line[j] = "#"
                       /\ IsSpace(line[k + 1])
                  rest == SubSeq(line, n + 2, Len(line))
              IN SubSeq(line, 1, n + 1) \o process_spans(rest, inline_code_spans(rest, 1), 1)
         ELSE process_spans(line, inline_code_spans(line, 1), 1)

\* A line processor without the exemption of structural lines.
process_line_unexempted(line) == process_spans(line, inline_code_spans(line, 1), 1)

process_line(line) ==
    IF is_structural(line) THEN line
    ELSE process_spans(line, inline_code_spans(line, 1), 1)

\* ------------------------------------------------------------ escape_mdx_special_characters

\* A delimiter pattern without the language name: re.match(r'^```$', line)
code_block_match_bare_only(line) == line = <<BT, BT, BT>>

\* re.match(r'^```(\w*)$', line)
code_block_match(line) ==
    /\ Len(line) >= 3
    /\ line[1] = BT /\ line[2] = BT /\ line[3] = BT
    /\ \A k \in 4..Len(line) : IsWord(line[k])

\* A sanitizer that escapes inside code blocks as it does outside.
code_block_line_escaped(line) == process_line(line)

\* processed_lines.append(line) inside a code block
code_block_line(line) == line

\* The loop over lines from line k on, in_code_block as it is at line k.
RECURSIVE sanitize_lines(_, _, _)
sanitize_lines(ls, k, in_block) ==
    IF k > Len(ls) THEN <<>>
    ELSE IF code_block_match(ls[k])
         THEN <<ls[k]>> \o sanitize_lines(ls, k + 1, ~in_block)
         ELSE IF ~in_block
              THEN <<process_line(ls[k])>> \o sanitize_lines(ls, k + 1, in_block)
              ELSE <<code_block_line(ls[k])>> \o sanitize_lines(ls, k + 1, in_block)

\* What one call returns, start to end.
escape_mdx_special_characters(text) ==
    IF text = <<>> THEN text ELSE Join(sanitize_lines(Split(text), 1, FALSE))


\* ------------------------------------------------------------ clean_api_doc

\* The last index of the run of [A-Za-z0-9_] that holds index k.
RECURSIVE WordEnd(_, _)
WordEnd(text, k) ==
    IF k < Len(text) /\ IsAsciiWord(text[k + 1]) THEN WordEnd(text, k + 1) ELSE k

\* r'(?<![a-zA-Z/="`])(<)([A-Za-z][A-Za-z0-9_]*)(>)' tried at index p: the
\* index of the closing '>' of the match, or 0 when it does not match at p.
TypeParameterEnd(text, p) ==
    IF /\ text[p] = "<"
       /\ ~(p > 1 /\ (IsLetter(text[p - 1]) \/ text[p - 1] \in {"/", "=", "\"", BT}))
       /\ p < Len(text)
       /\ IsLetter(text[p + 1])
    THEN LET e == WordEnd(text, p + 1) IN
         IF e < Len(text) /\ text[e + 1] = ">" THEN e + 1 ELSE 0
    ELSE 0

\* Fix 1: re.sub(that pattern, r'\\<\2\\>', content), from index pos on.
RECURSIVE fix_type_parameters(_, _)
fix_type_parameters(text, pos) ==
    IF pos > Len(text) THEN <<>>
    ELSE LET end == TypeParameterEnd(text, pos) IN
         IF end = 0
         THEN <<text[pos]>> \o fix_type_parameters(text, pos + 1)
         ELSE <<BS, "<">> \o SubSeq(text, pos + 1, end - 1) \o <<BS, ">">>
              \o fix_type_parameters(text, end + 1)

\* str.strip()
RECURSIVE LStrip(_)
LStrip(s) == IF s # <<>> /\ IsSpace(s[1]) THEN LStrip(Tail(s)) ELSE s
RECURSIVE RStrip(_)
RStrip(s) ==
    IF s # <<>> /\ IsSpace(s[Len(s)]) THEN RStrip(SubSeq(s, 1, Len(s) - 1)) ELSE s
Strip(s) == RStrip(LStrip(s))

\* line.strip() == '```' or re.match(r'^```\w*$', line.strip())
clean_code_block_match(line) ==
    Strip(line) = <<BT, BT, BT>> \/ code_block_match(Strip(line))

\* not in_code_block and '<' in line and '>' in line, given not in_code_block
suspicious(line) ==
    (\E k \in 1..Len(line) : line[k] = "<") /\ (\E k \in 1..Len(line) : line[k] = ">")

\* The character range a-Z of the two patterns of fix 2 is no range: 'a' comes
\* after 'Z', and re.sub raises re.error when it compiles the pattern.
bad_character_range(lo, hi) ==
    LET code == [k \in 1..26 |-> 64 + k] IN
    /\ lo \in Lowers
    /\ hi \in Uppers
    /\ code[CHOOSE k \in 1..26 : LowerSeq[k] = lo] + 32
           > code[CHOOSE k \in 1..26 : UpperSeq[k] = hi]

\* str.replace(old, new)
RECURSIVE ReplaceAll(_, _, _)
ReplaceAll(s, old, new) ==
    IF Len(s) < Len(old) THEN s
    ELSE IF SubSeq(s, 1, Len(old)) = old
         THEN new \o ReplaceAll(SubSeq(s, Len(old) + 1, Len(s)), old, new)
         ELSE <<s[1]>> \o ReplaceAll(Tail(s), old, new)

problematic_sequences == <<
    <<Chars("<ES>"), Chars("\\<ES\\>")>>,
    <<Chars("<Type>"), Chars("\\<Type\\>")>>,
    <<Chars("<Generic>"), Chars("\\<Generic\\>")>>,
    <<Chars("<Value>"), Chars("\\<Value\\>")>>,
    <<Chars("<Key>"), Chars("\\<Key\\>")>>,
    <<Chars("<Parameter>"), Chars("\\<Parameter\\>")>>,
    <<Chars("<Class>"), Chars("\\<Class\\>")>>,
    <<Chars("<Method>"), Chars("\\<Method\\>")>>,
    <<Chars("<Function>"), Chars("\\<Function\\>")>>,
    <<Chars("<Property>"), Chars("\\<Property\\>")>>
>>

\* Fix 3: for seq, replacement in problematic_sequences: content.replace(...)
RECURSIVE replace_sequences(_, _)
replace_sequences(text, seqs) ==
    IF seqs = <<>> THEN text
    ELSE replace_sequences(ReplaceAll(text, seqs[1][1], seqs[1][2]), Tail(seqs))

\* ------------------------------------------------------------ inputs

MaxLen == 3
MaxLines == 3

Alphabet == {"<", ">", "{", "}", BS, BT, "t", "T", "b", " ", "/"}

\* Every text over Alphabet of at most MaxLen characters.
ShortTexts == UNION {[1..n -> Alphabet] : n \in 0..MaxLen}

Fence == <<BT, BT, BT>>

SampleLines == {
    Fence,
    Fence \o Chars("t"),
    Chars("<t {>"),
    Chars("# {"),
    <<BT>> \o Chars("<t>{") \o <<BT>> \o Chars("{t}"),
    Chars("- <t>"),
    <<>>,
    Chars("  ") \o Fence
}

\* Every document of at most MaxLines lines of SampleLines.
LineDocs == {Join(ls) : ls \in UNION {[1..n -> SampleLines] : n \in 1..MaxLines}}

DivExample == Chars("<div class=\"x\">hello</div>")
ComponentExample == Chars("<MyComponent prop={1}/>")
GenericExample == Chars("List<T> maps keys to values")
LowerGenericExample == Chars("List<t> maps keys to values")
BraceExample == Chars("Use {config} carefully")
HeadingExample == Chars("## <Heading> discussion")
MixedCaseExample == Chars("<dIV id={1}>x</dIV> {y}")
EndToEndExample ==
    Chars("# Title\nSome ") \o <<BT>> \o Chars("code<T>") \o <<BT>>
    \o Chars(" and a real <div>tag</div> plus stray <Foo> bar and {braces}.")

\* An unmatched backtick and an unbalanced bracket, then a fence never closed.
MalformedExample == <<BT>> \o Chars("a <b\n") \o Fence \o Chars("\n{x")

\* An unknown tag whose attribute-like tail holds another opening bracket.
NestedBracketExample == Chars("x <t <a> y")

\* A fenced block whose language name holds a letter outside ASCII.
UnicodeFenceExample == Fence \o <<"é", "a">> \o Chars("\n{x}\n") \o Fence

\* An unknown tag after a backslash.
EscapedTagExample == Chars("\\<t>")

\* A preserved tag whose attribute-like tail holds a backtick.
BacktickInTagExample == Chars("<b ") \o <<BT>> \o Chars("> {x}")

\* Two lines with one backtick each.
UnmatchedBacktickExample == <<BT>> \o Chars("{a}\n{b}") \o <<BT>> \o Chars(" {c}")

\* A heading with braces and an unknown tag after the marker.
HeadingTextExample == Chars("## <t> {x}")

\* Comparisons, an arrow, and brackets next to a slash.
StrayBracketExamples ==
    {Chars("a < b"), Chars("x >= 1"), Chars("a -> b"), Chars("a </ b"), Chars("a /> b")}

Examples == {DivExample, ComponentExample, GenericExample, LowerGenericExample,
             BraceExample, HeadingExample, MixedCaseExample, EndToEndExample,
             MalformedExample, NestedBracketExample, UnicodeFenceExample,
             EscapedTagExample,
             BacktickInTagExample,
             UnmatchedBacktickExample,
             HeadingTextExample} \cup StrayBracketExamples

\* The line <n>text</n>.
PairedTag(n, text) == Chars("<") \o n \o Chars(">") \o text \o Chars("</") \o n \o Chars(">")

\* One paired element for every name of common_tags.
PairedTagExamples == {PairedTag(n, Chars("text")) : n \in common_tags}

Inputs == ShortTexts \cup LineDocs \cup Examples \cup PairedTagExamples

CleanSampleLines == {
    Fence,
    Fence \o Chars("t"),
    Chars("a <ES> b"),
    Chars("Map<Key>"),
    Chars("x > y"),
    Chars("see <Type"),
    Chars("x > <arg")
}

\* Files with carriage returns: \r\n and \r between lines, a fenced block
\* whose lines end in \r\n.
CarriageReturnDocs ==
    {Chars("a\r\nb"), Chars("a\rb"),
     Fence \o Chars("\r\n<ES>\r\n") \o Fence}

\* Every file of at most MaxLines lines of CleanSampleLines, and the files
\* with carriage returns.
CleanDocs ==
    {Join(ls) : ls \in UNION {[1..n -> CleanSampleLines] : n \in 1..MaxLines}}
        \cup CarriageReturnDocs

\* ------------------------------------------------------------ the sanitizer, line by line

\* No second invocation of the sanitizer is under way.
TwoIdle ==
    /\ content2 = <<>>
    /\ calls2 = 0
    /\ pc2 = "idle"
    /\ lines2 = <<>>
    /\ i2 = 1
    /\ in_code_block2 = FALSE
    /\ processed_lines2 = <<>>
    /\ result2 = <<>>

\* The sections of generate, in the order of the loop, and their titles.
section_ids == <<"overview", "installation", "api", "development", "contributing">>
section_titles ==
    <<"Overview", "Installation", "API Reference", "Development", "Contributing">>

\* A file that does not exist, and a file with a text.
NoFile == [exists |-> FALSE, text |-> <<>>]
File(text) == [exists |-> TRUE, text |-> text]

\* No provider has been called.
NoOutcome == [kind |-> "none", text |-> <<>>]


\* No file: what rv_overview holds when docs/overview.md does not exist.
NoOverview == [exists |-> FALSE, readable |-> FALSE, text |-> <<>>]

\* What _read_overview_content returned: None, or the content of the file.
None == [kind |-> "None", text |-> <<>>]
Str(text) == [kind |-> "str", text |-> text]

\* revise has not been called.
ReviseIdle ==
    /\ rv_docs_dir = FALSE
    /\ rv_pages_dir = FALSE
    /\ rv_ai_enhancer = FALSE
    /\ rv_overview = NoOverview
    /\ rv_pc = "idle"
    /\ rv_overview_content = None
    /\ rv_overall_success = FALSE
    /\ rv_attempts = <<>>
    /\ rv_result = "none"

\* No call of generate is under way.
GenIdle ==
    /\ ai_model = <<>>
    /\ gen_pc = "idle"
    /\ section = 1
    /\ gen_content = <<>>
    /\ docs_dir = FALSE
    /\ docs = [s \in 1..Len(section_ids) |-> NoFile]
    /\ index_links = {}
    /\ sidebar_sections = {}
    /\ called = <<>>
    /\ cloned = "none"
    /\ raised = FALSE
    /\ gen_result = "none"
    /\ enh_content = <<>>
    /\ enh_outcome = NoOutcome

\* No call of clean_api_doc is under way.
CleanIdle ==
    /\ api_doc_exists = FALSE
    /\ api_doc_perm = "rw"
    /\ api_doc = <<>>
    /\ cl_pc = "idle"
    /\ cl_content = <<>>
    /\ cl_lines = <<>>
    /\ cl_i = 1
    /\ cl_in_code_block = FALSE
    /\ cl_error = FALSE
    /\ cl_opens = <<>>

Init ==
    /\ content \in Inputs
    /\ calls = 1
    /\ pc = "call"
    /\ lines = <<>>
    /\ i = 1
    /\ in_code_block = FALSE
    /\ processed_lines = <<>>
    /\ result = <<>>
    /\ CleanIdle
    /\ TwoIdle
    /\ GenIdle
    /\ ReviseIdle

\* if not content: return content
ReturnEmpty ==
    /\ pc = "call"
    /\ content = <<>>
    /\ result' = content
    /\ pc' = "done"
    /\ UNCHANGED <<content, calls, lines, i, in_code_block, processed_lines>>
    /\ UNCHANGED sanrest

\* in_code_block = False; lines = content.split('\n'); processed_lines = []
Enter ==
    /\ pc = "call"
    /\ content # <<>>
    /\ in_code_block' = FALSE
    /\ lines' = Split(content)
    /\ processed_lines' = <<>>
    /\ i' = 1
    /\ pc' = "loop"
    /\ UNCHANGED <<content, calls, result>>
    /\ UNCHANGED sanrest

\* A code block delimiter: toggle the state, keep the line.
FenceLine ==
    /\ pc = "loop"
    /\ i <= Len(lines)
    /\ code_block_match(lines[i])
    /\ in_code_block' = ~in_code_block
    /\ processed_lines' = Append(processed_lines, lines[i])
    /\ i' = i + 1
    /\ UNCHANGED <<content, calls, pc, lines, result>>
    /\ UNCHANGED sanrest

\* A sanitizer that drops a line outside a code block when nothing is left of
\* it: if processed: processed_lines.append(processed).
ProseLine_dropping_blank ==
    /\ pc = "loop"
    /\ i <= Len(lines)
    /\ ~code_block_match(lines[i])
    /\ ~in_code_block
    /\ processed_lines' = IF process_line(lines[i]) = <<>> THEN processed_lines
                           ELSE Append(processed_lines, process_line(lines[i]))
    /\ i' = i + 1
    /\ UNCHANGED <<content, calls, pc, lines, in_code_block, result>>
    /\ UNCHANGED sanrest

\* A line outside a code block.
ProseLine ==
    /\ pc = "loop"
    /\ i <= Len(lines)
    /\ ~code_block_match(lines[i])
    /\ ~in_code_block
    /\ processed_lines' = Append(processed_lines, process_line(lines[i]))
    /\ i' = i + 1
    /\ UNCHANGED <<content, calls, pc, lines, in_code_block, result>>
    /\ UNCHANGED sanrest

\* A line inside a code block.
CodeLine ==
    /\ pc = "loop"
    /\ i <= Len(lines)
    /\ ~code_block_match(lines[i])
    /\ in_code_block
    /\ processed_lines' = Append(processed_lines, code_block_line(lines[i]))
    /\ i' = i + 1
    /\ UNCHANGED <<content, calls, pc, lines, in_code_block, result>>
    /\ UNCHANGED sanrest

\* A sanitizer that rejects a document whose last fence is never closed: it
\* returns only when the loop ends outside a code block.
Return_closed_fence_only ==
    /\ pc = "loop"
    /\ i > Len(lines)
    /\ ~in_code_block
    /\ result' = Join(processed_lines)
    /\ pc' = "done"
    /\ UNCHANGED <<content, calls, lines, i, in_code_block, processed_lines>>
    /\ UNCHANGED sanrest

\* return '\n'.join(processed_lines)
Return ==
    /\ pc = "loop"
    /\ i > Len(lines)
    /\ result' = Join(processed_lines)
    /\ pc' = "done"
    /\ UNCHANGED <<content, calls, lines, i, in_code_block, processed_lines>>
    /\ UNCHANGED sanrest

\* The returned text is sanitized again: a second call whose argument is the
\* result of the first.
Reapply ==
    /\ pc = "done"
    /\ calls = 1
    /\ content' = result
    /\ calls' = 2
    /\ pc' = "call"
    /\ lines' = <<>>
    /\ i' = 1
    /\ in_code_block' = FALSE
    /\ processed_lines' = <<>>
    /\ result' = <<>>
    /\ UNCHANGED sanrest

Next ==
    \/ ReturnEmpty
    \/ Enter
    \/ FenceLine
    \/ ProseLine
    \/ CodeLine
    \/ Return
    \/ Reapply

Spec == Init /\ [][Next]_vars

\* ------------------------------------------------------------ two invocations, interleaved

TwoLines == {Fence, Chars("<t {>"), Chars("{t}")}

\* The empty document and every document of one or two lines of TwoLines.
TwoDocs == {<<>>} \cup TwoLines \cup {Join(<<a, b>>) : a, b \in TwoLines}

\* Two invocations are called, on two documents.
TwoInit ==
    /\ content \in TwoDocs
    /\ calls = 1
    /\ pc = "call"
    /\ lines = <<>>
    /\ i = 1
    /\ in_code_block = FALSE
    /\ processed_lines = <<>>
    /\ result = <<>>
    /\ content2 \in TwoDocs
    /\ calls2 = 1
    /\ pc2 = "call"
    /\ lines2 = <<>>
    /\ i2 = 1
    /\ in_code_block2 = FALSE
    /\ processed_lines2 = <<>>
    /\ result2 = <<>>
    /\ CleanIdle
    /\ GenIdle
    /\ ReviseIdle

\* What a step of the second invocation leaves alone.
tworest == <<sanvars, clvars, genvars, revvars>>

\* if not content: return content
ReturnEmpty2 ==
    /\ pc2 = "call"
    /\ content2 = <<>>
    /\ result2' = content2
    /\ pc2' = "done"
    /\ UNCHANGED <<content2, calls2, lines2, i2, in_code_block2, processed_lines2>>
    /\ UNCHANGED tworest

\* A sanitizer whose flag is set when the module is loaded, not at each call.
Enter2_keeping_flag ==
    /\ pc2 = "call"
    /\ content2 # <<>>
    /\ lines2' = Split(content2)
    /\ processed_lines2' = <<>>
    /\ i2' = 1
    /\ pc2' = "loop"
    /\ UNCHANGED <<content2, calls2, in_code_block2, result2>>
    /\ UNCHANGED tworest

\* in_code_block = False; lines = content.split('\n'); processed_lines = []
Enter2 ==
    /\ pc2 = "call"
    /\ content2 # <<>>
    /\ in_code_block2' = FALSE
    /\ lines2' = Split(content2)
    /\ processed_lines2' = <<>>
    /\ i2' = 1
    /\ pc2' = "loop"
    /\ UNCHANGED <<content2, calls2, result2>>
    /\ UNCHANGED tworest

\* A code block delimiter: toggle the state, keep the line.
FenceLine2 ==
    /\ pc2 = "loop"
    /\ i2 <= Len(lines2)
    /\ code_block_match(lines2[i2])
    /\ in_code_block2' = ~in_code_block2
    /\ processed_lines2' = Append(processed_lines2, lines2[i2])
    /\ i2' = i2 + 1
    /\ UNCHANGED <<content2, calls2, pc2, lines2, result2>>
    /\ UNCHANGED tworest

\* A line outside a code block.
ProseLine2 ==
    /\ pc2 = "loop"
    /\ i2 <= Len(lines2)
    /\ ~code_block_match(lines2[i2])
    /\ ~in_code_block2
    /\ processed_lines2' = Append(processed_lines2, process_line(lines2[i2]))
    /\ i2' = i2 + 1
    /\ UNCHANGED <<content2, calls2, pc2, lines2, in_code_block2, result2>>
    /\ UNCHANGED tworest

\* A line inside a code block.
CodeLine2 ==
    /\ pc2 = "loop"
    /\ i2 <= Len(lines2)
    /\ ~code_block_match(lines2[i2])
    /\ in_code_block2
    /\ processed_lines2' = Append(processed_lines2, code_block_line(lines2[i2]))
    /\ i2' = i2 + 1
    /\ UNCHANGED <<content2, calls2, pc2, lines2, in_code_block2, result2>>
    /\ UNCHANGED tworest

\* return '\n'.join(processed_lines)
Return2 ==
    /\ pc2 = "loop"
    /\ i2 > Len(lines2)
    /\ result2' = Join(processed_lines2)
    /\ pc2' = "done"
    /\ UNCHANGED <<content2, calls2, lines2, i2, in_code_block2, processed_lines2>>
    /\ UNCHANGED tworest

\* After the second invocation has returned, one more is called on another
\* document.  Nothing of the earlier invocation is handed to it; what its
\* locals held is still in place until the call sets them.
CallAgain2 ==
    /\ pc2 = "done"
    /\ calls2 = 1
    /\ content2' \in TwoDocs
    /\ calls2' = 2
    /\ pc2' = "call"
    /\ UNCHANGED <<lines2, i2, in_code_block2, processed_lines2, result2>>
    /\ UNCHANGED tworest

TwoNext ==
    \/ ReturnEmpty
    \/ Enter
    \/ FenceLine
    \/ ProseLine
    \/ CodeLine
    \/ Return
    \/ ReturnEmpty2
    \/ Enter2
    \/ FenceLine2
    \/ ProseLine2
    \/ CodeLine2
    \/ Return2
    \/ CallAgain2

SpecTwo == TwoInit /\ [][TwoNext]_vars

\* ------------------------------------------------------------ clean_api_doc, step by step

\* No call of the sanitizer is under way.
SanitizerIdle ==
    /\ content = <<>>
    /\ calls = 0
    /\ pc = "idle"
    /\ lines = <<>>
    /\ i = 1
    /\ in_code_block = FALSE
    /\ processed_lines = <<>>
    /\ result = <<>>

CleanInit ==
    /\ SanitizerIdle
    /\ TwoIdle
    /\ GenIdle
    /\ ReviseIdle
    /\ \/ api_doc_exists = FALSE /\ api_doc = <<>> /\ api_doc_perm = "rw"
       \/ api_doc_exists = TRUE /\ api_doc \in CleanDocs /\ api_doc_perm \in {"rw", "r", "w"}
    /\ cl_pc = "call"
    /\ cl_content = <<>>
    /\ cl_lines = <<>>
    /\ cl_i = 1
    /\ cl_in_code_block = FALSE
    /\ cl_error = FALSE
    /\ cl_opens = <<>>

\* if not os.path.exists(api_doc_path): return
CleanMissing ==
    /\ cl_pc = "call"
    /\ ~api_doc_exists
    /\ cl_pc' = "done"
    /\ UNCHANGED <<api_doc_exists, api_doc_perm, api_doc, cl_content, cl_lines, cl_i,
                   cl_in_code_block, cl_error>>
    /\ UNCHANGED cl_opens
    /\ UNCHANGED clrest

\* try: with open(api_doc_path, 'r') as f: content = f.read()
CleanRead ==
    /\ cl_pc = "call"
    /\ api_doc_exists
    /\ api_doc_perm \in {"rw", "r"}
    /\ cl_content' = universal_newlines(api_doc)
    /\ cl_pc' = "fix1"
    /\ UNCHANGED <<api_doc_exists, api_doc_perm, api_doc, cl_lines, cl_i,
                   cl_in_code_block, cl_error>>
    /\ cl_opens' = Append(cl_opens, "r")
    /\ UNCHANGED clrest

\* A clean_api_doc without the try: the exception of open() leaves the call.
CleanReadFails_propagating ==
    /\ cl_pc = "call"
    /\ api_doc_exists
    /\ api_doc_perm \notin {"rw", "r"}
    /\ cl_pc' = "raised"
    /\ cl_opens' = Append(cl_opens, "r")
    /\ UNCHANGED <<api_doc_exists, api_doc_perm, api_doc, cl_content, cl_lines, cl_i,
                   cl_in_code_block, cl_error>>
    /\ UNCHANGED clrest

\* open(api_doc_path, 'r') raises; except Exception: logging.error(...)
CleanReadFails ==
    /\ cl_pc = "call"
    /\ api_doc_exists
    /\ api_doc_perm \notin {"rw", "r"}
    /\ cl_error' = TRUE
    /\ cl_pc' = "done"
    /\ UNCHANGED <<api_doc_exists, api_doc_perm, api_doc, cl_content, cl_lines, cl_i,
                   cl_in_code_block>>
    /\ cl_opens' = Append(cl_opens, "r")
    /\ UNCHANGED clrest

\* A fix 1 that saves its result at once: the file is written pass by pass.
CleanFix1_writing_through ==
    /\ cl_pc = "fix1"
    /\ cl_content' = fix_type_parameters(cl_content, 1)
    /\ cl_lines' = Split(cl_content')
    /\ cl_in_code_block' = FALSE
    /\ cl_i' = 1
    /\ cl_pc' = "fix2"
    /\ api_doc' = cl_content'
    /\ cl_opens' = Append(cl_opens, "w")
    /\ UNCHANGED <<api_doc_exists, api_doc_perm, cl_error>>
    /\ UNCHANGED clrest

\* Fix 1, then lines = content.split('\n'); in_code_block = False
CleanFix1 ==
    /\ cl_pc = "fix1"
    /\ cl_content' = fix_type_parameters(cl_content, 1)
    /\ cl_lines' = Split(cl_content')
    /\ cl_in_code_block' = FALSE
    /\ cl_i' = 1
    /\ cl_pc' = "fix2"
    /\ UNCHANGED <<api_doc_exists, api_doc_perm, api_doc, cl_error>>
    /\ UNCHANGED cl_opens
    /\ UNCHANGED clrest

\* Fix 2, a code block delimiter: toggle and continue
CleanFenceLine ==
    /\ cl_pc = "fix2"
    /\ cl_i <= Len(cl_lines)
    /\ clean_code_block_match(cl_lines[cl_i])
    /\ cl_in_code_block' = ~cl_in_code_block
    /\ cl_i' = cl_i + 1
    /\ UNCHANGED <<api_doc_exists, api_doc_perm, api_doc, cl_pc, cl_content, cl_lines,
                   cl_error>>
    /\ UNCHANGED cl_opens
    /\ UNCHANGED clrest

\* Fix 2, a line that is left alone: inside a code block, or without '<' or '>'
CleanPlainLine ==
    /\ cl_pc = "fix2"
    /\ cl_i <= Len(cl_lines)
    /\ ~clean_code_block_match(cl_lines[cl_i])
    /\ cl_in_code_block \/ ~suspicious(cl_lines[cl_i])
    /\ cl_i' = cl_i + 1
    /\ UNCHANGED <<api_doc_exists, api_doc_perm, api_doc, cl_pc, cl_content, cl_lines,
                   cl_in_code_block, cl_error>>
    /\ UNCHANGED cl_opens
    /\ UNCHANGED clrest

\* Fix 2, a line outside code blocks with '<' and '>': re.sub is called with
\* the pattern that holds [A-Za-Z0-9_], raises re.error, and the except branch
\* logs the error; the file is not written.
CleanSuspiciousLine ==
    /\ cl_pc = "fix2"
    /\ cl_i <= Len(cl_lines)
    /\ ~clean_code_block_match(cl_lines[cl_i])
    /\ ~cl_in_code_block
    /\ suspicious(cl_lines[cl_i])
    /\ bad_character_range("a", "Z")
    /\ cl_error' = TRUE
    /\ cl_pc' = "done"
    /\ UNCHANGED <<api_doc_exists, api_doc_perm, api_doc, cl_content, cl_lines, cl_i,
                   cl_in_code_block>>
    /\ UNCHANGED cl_opens
    /\ UNCHANGED clrest

\* content = '\n'.join(lines), then fix 3
CleanFix3 ==
    /\ cl_pc = "fix2"
    /\ cl_i > Len(cl_lines)
    /\ cl_content' = replace_sequences(Join(cl_lines), problematic_sequences)
    /\ cl_pc' = "write"
    /\ UNCHANGED <<api_doc_exists, api_doc_perm, api_doc, cl_lines, cl_i,
                   cl_in_code_block, cl_error>>
    /\ UNCHANGED cl_opens
    /\ UNCHANGED clrest

\* with open(api_doc_path, 'w') as f: f.write(content)
CleanWrite ==
    /\ cl_pc = "write"
    /\ api_doc_perm \in {"rw", "w"}
    /\ api_doc' = cl_content
    /\ cl_pc' = "done"
    /\ UNCHANGED <<api_doc_exists, api_doc_perm, cl_content, cl_lines, cl_i,
                   cl_in_code_block, cl_error>>
    /\ cl_opens' = Append(cl_opens, "w")
    /\ UNCHANGED clrest

\* open(api_doc_path, 'w') raises; except Exception: logging.error(...)
CleanWriteFails ==
    /\ cl_pc = "write"
    /\ api_doc_perm \notin {"rw", "w"}
    /\ cl_error' = TRUE
    /\ cl_pc' = "done"
    /\ UNCHANGED <<api_doc_exists, api_doc_perm, api_doc, cl_content, cl_lines, cl_i,
                   cl_in_code_block>>
    /\ cl_opens' = Append(cl_opens, "w")
    /\ UNCHANGED clrest

CleanNext ==
    \/ CleanMissing
    \/ CleanRead
    \/ CleanReadFails
    \/ CleanFix1
    \/ CleanFenceLine
    \/ CleanPlainLine
    \/ CleanSuspiciousLine
    \/ CleanFix3
    \/ CleanWrite
    \/ CleanWriteFails

SpecClean == CleanInit /\ [][CleanNext]_vars


\* ------------------------------------------------------------ AIEnhancer

\* text.split(c)
RECURSIVE SplitOn(_, _)
SplitOn(s, c) ==
    LET k == IndexFrom(s, c, 1)
    IN IF k = 0 THEN <<s>>
       ELSE <<SubSeq(s, 1, k - 1)>> \o SplitOn(SubSeq(s, k + 1, Len(s)), c)

supported_providers == {Chars("openai"), Chars("azure"), Chars("ollama")}

\* AIEnhancer.__init__: self.provider for the model argument
provider_of(model) ==
    LET parts == SplitOn(model, "/")
        provider == IF Len(parts) = 2 THEN parts[1] ELSE Chars("openai")
    IN IF provider \notin supported_providers THEN Chars("openai") ELSE provider

\* An enhance that hands on whatever text the provider returned.
enhance_without_fallback(original, provider, outcome) ==
    IF outcome.kind = "text" THEN outcome.text ELSE original

\* AIEnhancer.enhance, given what the call of the provider does
enhance(original, provider, outcome) ==
    IF provider \notin supported_providers THEN original
    ELSE IF outcome.kind = "raises" THEN original
    ELSE IF outcome.kind = "None" \/ outcome.text = <<>> THEN original
    ELSE outcome.text

\* ------------------------------------------------------------ SlimDocGenerator.generate

\* The model arguments: three providers, no provider, an unsupported provider,
\* and a model with two separators.
ModelArgs == {Chars("openai/m"), Chars("azure/m"), Chars("ollama/m"), Chars("m"),
              Chars("x/m"), Chars("ollama/m/v")}

\* What a section generator returns: nothing, or a text.
SectionContents == {<<>>, Chars("ok"), Chars("{x}")}

\* What the call of the provider does: it raises, or returns None or a text.
ProviderOutcomes == {
    [kind |-> "raises", text |-> <<>>],
    [kind |-> "None", text |-> <<>>],
    [kind |-> "text", text |-> <<>>],
    [kind |-> "text", text |-> Chars("<B> {y}")]
}

\* The four writes before the content.
frontmatter(k) ==
    Chars("---\n") \o Chars("id: ") \o Chars(section_ids[k]) \o Chars("\n")
    \o Chars("title: ") \o Chars(section_titles[k]) \o Chars("\n") \o Chars("---\n\n")

GenInit ==
    /\ ai_model \in {<<>>} \cup ModelArgs
    /\ gen_pc = "clone"
    /\ section = 1
    /\ gen_content = <<>>
    /\ docs_dir \in BOOLEAN
    /\ docs = [s \in 1..Len(section_ids) |-> NoFile]
    /\ index_links = {}
    /\ sidebar_sections = {}
    /\ called = <<>>
    /\ cloned = "none"
    /\ raised = FALSE
    /\ gen_result = "none"
    /\ enh_content = <<>>
    /\ enh_outcome = NoOutcome
    /\ SanitizerIdle
    /\ CleanIdle
    /\ TwoIdle
    /\ ReviseIdle

\* What a step of generate leaves alone.
genrest == <<sanvars, clvars, twovars, revvars>>

\* except Exception: log the error, return False
Fails ==
    /\ raised' = TRUE
    /\ gen_result' = "False"
    /\ gen_pc' = "done"

\* Step 1: if not self.template_manager.clone_template(): return False
CloneTemplate ==
    /\ gen_pc = "clone"
    /\ called' = Append(called, <<"clone_template">>)
    /\ \E outcome \in {"True", "False", "raises"} :
          \/ /\ outcome = "True"
             /\ cloned' = "True"
             /\ gen_pc' = "analyze"
             /\ UNCHANGED <<raised, gen_result>>
          \/ /\ outcome = "False"
             /\ cloned' = "False"
             /\ gen_result' = "False"
             /\ gen_pc' = "done"
             /\ UNCHANGED raised
          \/ /\ outcome = "raises"
             /\ Fails
             /\ UNCHANGED cloned
    /\ UNCHANGED <<ai_model, section, gen_content, docs_dir, docs, index_links,
                   sidebar_sections, enh_content, enh_outcome>>
    /\ UNCHANGED genrest

\* Step 2: repo_info = self.analyzer.analyze()
Analyze ==
    /\ gen_pc = "analyze"
    /\ called' = Append(called, <<"analyze">>)
    /\ \E raises \in BOOLEAN :
          IF raises THEN Fails
          ELSE gen_pc' = "makedirs" /\ UNCHANGED <<raised, gen_result>>
    /\ UNCHANGED <<ai_model, section, gen_content, docs_dir, docs, index_links,
                   sidebar_sections, cloned, enh_content, enh_outcome>>
    /\ UNCHANGED genrest

\* Step 3: os.makedirs(docs_dir, exist_ok=True)
MakeDocsDir ==
    /\ gen_pc = "makedirs"
    /\ \E raises \in BOOLEAN :
          IF raises THEN Fails /\ UNCHANGED docs_dir
          ELSE /\ docs_dir' = TRUE
               /\ gen_pc' = "generate"
               /\ UNCHANGED <<raised, gen_result>>
    /\ UNCHANGED <<ai_model, section, gen_content, docs, index_links,
                   sidebar_sections, called, cloned, enh_content, enh_outcome>>
    /\ UNCHANGED genrest

\* The loop goes on to the next section, or ends.
NextSection ==
    /\ section' = section + 1
    /\ gen_pc' = IF section < Len(section_ids) THEN "generate" ELSE "index"

\* A generate that asks a generator again when it returned nothing.
GenerateSection_retrying_empty ==
    /\ gen_pc = "generate"
    /\ \E raises \in BOOLEAN, c \in SectionContents :
          IF raises
          THEN /\ Fails
               /\ called' = Append(called, <<"generate", section_ids[section]>>)
               /\ UNCHANGED <<section, gen_content>>
          ELSE /\ gen_content' = c
               /\ called' =
                     IF c = <<>>
                     THEN called \o <<<<"generate", section_ids[section]>>,
                                      <<"generate", section_ids[section]>>>>
                     ELSE Append(called, <<"generate", section_ids[section]>>)
               /\ IF c = <<>> THEN NextSection
                  ELSE /\ gen_pc' = IF ai_model # <<>> THEN "enhance" ELSE "write"
                       /\ UNCHANGED section
               /\ UNCHANGED <<raised, gen_result>>
    /\ UNCHANGED <<ai_model, docs_dir, docs, index_links, sidebar_sections, cloned,
                   enh_content, enh_outcome>>
    /\ UNCHANGED genrest

\* Step 4: content = generator.generate(repo_info); without content the
\* section is skipped
GenerateSection ==
    /\ gen_pc = "generate"
    /\ called' = Append(called, <<"generate", section_ids[section]>>)
    /\ \E raises \in BOOLEAN, c \in SectionContents :
          IF raises
          THEN Fails /\ UNCHANGED <<section, gen_content>>
          ELSE /\ gen_content' = c
               /\ IF c = <<>> THEN NextSection
                  ELSE /\ gen_pc' = IF ai_model # <<>> THEN "enhance" ELSE "write"
                       /\ UNCHANGED section
               /\ UNCHANGED <<raised, gen_result>>
    /\ UNCHANGED <<ai_model, docs_dir, docs, index_links, sidebar_sections, cloned,
                   enh_content, enh_outcome>>
    /\ UNCHANGED genrest

\* if self.ai_enhancer and content: content = self.ai_enhancer.enhance(content, section_id)
Enhance ==
    /\ gen_pc = "enhance"
    /\ called' = Append(called, <<"enhance", section_ids[section]>>)
    /\ \E outcome \in ProviderOutcomes :
          /\ enh_content' = gen_content
          /\ enh_outcome' = outcome
          /\ gen_content' = enhance(gen_content, provider_of(ai_model), outcome)
    /\ IF gen_content' = <<>> THEN NextSection
       ELSE gen_pc' = "write" /\ UNCHANGED section
    /\ UNCHANGED <<ai_model, docs_dir, docs, index_links, sidebar_sections, cloned,
                   raised, gen_result>>
    /\ UNCHANGED genrest

\* if content: the file of the section is written, frontmatter first.  open()
\* may raise, which leaves no file; f.write(content) may raise, which leaves
\* the file with the frontmatter written before it.
WriteSection ==
    /\ gen_pc = "write"
    /\ called' = Append(called, <<"write", section_ids[section]>>)
    /\ \E outcome \in {"written", "open raises", "write raises"} :
          CASE outcome = "open raises" -> Fails /\ UNCHANGED <<section, docs>>
            [] outcome = "write raises" ->
                 /\ Fails
                 /\ docs' = [docs EXCEPT ![section] = File(frontmatter(section))]
                 /\ UNCHANGED section
            [] outcome = "written" ->
                 /\ docs' = [docs EXCEPT
                               ![section] = File(frontmatter(section) \o gen_content)]
                 /\ NextSection
                 /\ UNCHANGED <<raised, gen_result>>
    /\ UNCHANGED <<ai_model, gen_content, docs_dir, index_links, sidebar_sections,
                   cloned, enh_content, enh_outcome>>
    /\ UNCHANGED genrest

\* Step 5: self._generate_index(repo_info, docs_dir)
GenerateIndex ==
    /\ gen_pc = "index"
    /\ \E raises \in BOOLEAN :
          IF raises THEN Fails /\ UNCHANGED index_links
          ELSE /\ index_links' = {section_ids[k] : k \in {j \in DOMAIN docs : docs[j].exists}}
               /\ gen_pc' = "config"
               /\ UNCHANGED <<raised, gen_result>>
    /\ UNCHANGED <<ai_model, section, gen_content, docs_dir, docs, sidebar_sections,
                   called, cloned, enh_content, enh_outcome>>
    /\ UNCHANGED genrest

\* Step 6: self.config_updater.update_config(repo_info)
UpdateConfig ==
    /\ gen_pc = "config"
    /\ called' = Append(called, <<"update_config">>)
    /\ \E raises \in BOOLEAN :
          IF raises THEN Fails
          ELSE gen_pc' = "sidebars" /\ UNCHANGED <<raised, gen_result>>
    /\ UNCHANGED <<ai_model, section, gen_content, docs_dir, docs, index_links,
                   sidebar_sections, cloned, enh_content, enh_outcome>>
    /\ UNCHANGED genrest

\* Step 7: self.config_updater.update_sidebars(sections_with_content)
UpdateSidebars ==
    /\ gen_pc = "sidebars"
    /\ called' = Append(called, <<"update_sidebars">>)
    /\ sidebar_sections' =
          {section_ids[k] : k \in {j \in DOMAIN docs : docs[j].exists}} \cup {"index"}
    /\ \E raises \in BOOLEAN :
          IF raises THEN Fails
          ELSE gen_pc' = "verify" /\ UNCHANGED <<raised, gen_result>>
    /\ UNCHANGED <<ai_model, section, gen_content, docs_dir, docs, index_links,
                   cloned, enh_content, enh_outcome>>
    /\ UNCHANGED genrest

\* Step 8: self._verify_docusaurus_structure(); return True
VerifyStructure ==
    /\ gen_pc = "verify"
    /\ \E raises \in BOOLEAN :
          IF raises THEN Fails
          ELSE /\ gen_result' = "True"
               /\ gen_pc' = "done"
               /\ UNCHANGED raised
    /\ UNCHANGED <<ai_model, section, gen_content, docs_dir, docs, index_links,
                   sidebar_sections, called, cloned, enh_content, enh_outcome>>
    /\ UNCHANGED genrest

GenNext ==
    \/ CloneTemplate
    \/ Analyze
    \/ MakeDocsDir
    \/ GenerateSection
    \/ Enhance
    \/ WriteSection
    \/ GenerateIndex
    \/ UpdateConfig
    \/ UpdateSidebars
    \/ VerifyStructure

SpecGenerate == GenInit /\ [][GenNext]_vars

\* ------------------------------------------------------------ notions the claims use

\* The lines of the text the call returned.
OutLines == Split(result)

\* A fence delimiter: three backticks, optionally followed by a language name.
IsFenceDelimiter(line) ==
    /\ Len(line) >= 3
    /\ SubSeq(line, 1, 3) = Fence
    /\ \A k \in 4..Len(line) : IsWord(line[k])

\* The number of fence delimiters among the first k lines of ls.
FenceCount(ls, k) == Cardinality({j \in 1..k : IsFenceDelimiter(ls[j])})

\* Line k of ls lies inside a fenced block: it follows an odd number of
\* delimiters and is none itself.
InsideFence(ls, k) == ~IsFenceDelimiter(ls[k]) /\ FenceCount(ls, k - 1) % 2 = 1

\* Line k of ls is prose: it follows an even number of delimiters and is none.
OutsideFence(ls, k) == ~IsFenceDelimiter(ls[k]) /\ FenceCount(ls, k - 1) % 2 = 0

\* Lines a < b of ls delimit a well-formed fenced block: a opens a block (any
\* delimiter, outside a fence), b is the next delimiter and is three backticks.
WellFormedBlock(ls, a, b) ==
    /\ a < b
    /\ IsFenceDelimiter(ls[a])
    /\ FenceCount(ls, a - 1) % 2 = 0
    /\ ls[b] = Fence
    /\ \A j \in (a + 1)..(b - 1) : ~IsFenceDelimiter(ls[j])

\* out is text with backslashes inserted and nothing else changed.
RECURSIVE IsBackslashInsertion(_, _)
IsBackslashInsertion(text, out) ==
    IF out = <<>> THEN text = <<>>
    ELSE IF text # <<>> /\ text[1] = out[1]
         THEN IsBackslashInsertion(Tail(text), Tail(out))
         ELSE out[1] = BS /\ IsBackslashInsertion(text, Tail(out))

\* The stretch s..e of line stands unchanged in out, between what the text
\* before it and the text after it became.
CopiedUnchanged(line, out, s, e) ==
    \E k \in 1..Len(out) :
        /\ k + (e - s) <= Len(out)
        /\ SubSeq(out, k, k + (e - s)) = SubSeq(line, s, e)
        /\ IsBackslashInsertion(SubSeq(line, 1, s - 1), SubSeq(out, 1, k - 1))
        /\ IsBackslashInsertion(SubSeq(line, e + 1, Len(line)),
                                SubSeq(out, k + (e - s) + 1, Len(out)))

\* A character the sanitizer escapes.
IsSpecial(c) == c \in {"{", "}", "<", ">"}

\* Index p of line lies in one of its inline code spans.
InInlineCode(line, p) ==
    LET spans == inline_code_spans(line, 1) IN
    \E n \in 1..Len(spans) : spans[n][1] <= p /\ p <= spans[n][2]

\* The stretches <<first, last>> of line outside the spans, from index pos on.
RECURSIVE SegmentsBetween(_, _, _)
SegmentsBetween(line, spans, pos) ==
    IF spans = <<>>
    THEN IF pos <= Len(line) THEN <<<<pos, Len(line)>>>> ELSE <<>>
    ELSE (IF spans[1][1] > pos THEN <<<<pos, spans[1][1] - 1>>>> ELSE <<>>)
         \o SegmentsBetween(line, Tail(spans), spans[1][2] + 1)

\* The prose segments of line: what lies between its inline code spans.
ProseSegments(line) == SegmentsBetween(line, inline_code_spans(line, 1), 1)

\* The tag pattern matches in the prose segments of line, each
\* <<start, end, name>> with indices into line.
TagMatchesOf(line) ==
    LET segs == ProseSegments(line) IN
    UNION {
        LET off == segs[n][1] - 1
            tm == tag_matches(SubSeq(line, segs[n][1], segs[n][2]), 1)
        IN {<<tm[m][1] + off, tm[m][2] + off, tm[m][3]>> : m \in 1..Len(tm)}
        : n \in 1..Len(segs)}

\* The preserve policy: a known element name, whatever its case, or a name
\* whose first character is uppercase.
IsPreservedName(name) == Lower(name) \in common_tags \/ name[1] \in Uppers

\* Index p of line lies in a tag match whose name is preserved.
InPreservedTag(line, p) ==
    \E m \in TagMatchesOf(line) : IsPreservedName(m[3]) /\ m[1] <= p /\ p <= m[2]

\* Line k of ls is one the sanitizer processes: outside a fence, not structural.
Processed(ls, k) == OutsideFence(ls, k) /\ ~is_structural(ls[k])

\* For each character of text from index p on, its index in out from index q
\* on, out being text with characters inserted; 0 where out has run out.
RECURSIVE AlignFrom(_, _, _, _)
AlignFrom(text, out, p, q) ==
    IF p > Len(text) THEN <<>>
    ELSE IF q > Len(out) THEN <<0>> \o AlignFrom(text, out, p + 1, q)
    ELSE IF text[p] = out[q] THEN <<q>> \o AlignFrom(text, out, p + 1, q + 1)
    ELSE AlignFrom(text, out, p, q + 1)

\* The number of leading '#' of line.
RECURSIVE LeadingHashes(_)
LeadingHashes(line) ==
    IF line # <<>> /\ line[1] = "#" THEN 1 + LeadingHashes(Tail(line)) ELSE 0

\* line starts with a heading marker, a blockquote marker or a list bullet.
HasStructuralMarker(line) ==
    \/ LET n == LeadingHashes(line) IN
       n \in 1..6 /\ Len(line) > n /\ IsSpace(line[n + 1])
    \/ Len(line) >= 2 /\ line[1] = ">" /\ IsSpace(line[2])
    \/ Len(line) >= 2 /\ line[1] \in {"-", "*", "+"} /\ IsSpace(line[2])

\* ------------------------------------------------------------ claims

\* C1: idempotence: sanitizing the text a call returned returns that text
\* again; the second application adds no backslash.
C1_Idempotent == (pc = "done" /\ calls = 2) => result = content

\* C2: every line between the two delimiters of a well-formed fenced block is
\* in the output exactly as it is in the input.
C2_FencedCodePreserved ==
    pc = "done" =>
        \A a \in 1..Len(lines) : \A b \in 1..Len(lines) :
            WellFormedBlock(lines, a, b) =>
                \A j \in (a + 1)..(b - 1) : OutLines[j] = lines[j]

\* A well-formed block holding a line that would be escaped outside a fence.
C2_Witness ==
    /\ pc = "done"
    /\ \E a \in 1..Len(lines) : \E b \in 1..Len(lines) :
        /\ WellFormedBlock(lines, a, b)
        /\ \E j \in (a + 1)..(b - 1) :
            /\ \E k \in 1..Len(lines[j]) : lines[j][k] = "{"
            /\ OutLines[j] = lines[j]

\* C3: on a line outside a fence, every inline code span is copied to the
\* output unchanged.
C3_InlineCodePreserved ==
    pc = "done" =>
        \A k \in 1..Len(lines) :
            OutsideFence(lines, k) =>
                LET spans == inline_code_spans(lines[k], 1) IN
                \A n \in 1..Len(spans) :
                    CopiedUnchanged(lines[k], OutLines[k], spans[n][1], spans[n][2])

\* A line whose inline code span holds special characters and stands, while
\* the prose after it was escaped.
C3_Witness ==
    /\ pc = "done"
    /\ \E k \in 1..Len(lines) :
        /\ OutsideFence(lines, k)
        /\ ~is_structural(lines[k])
        /\ OutLines[k] # lines[k]
        /\ LET spans == inline_code_spans(lines[k], 1) IN
           \E n \in 1..Len(spans) :
               /\ \E p \in spans[n][1]..spans[n][2] : IsSpecial(lines[k][p])
               /\ CopiedUnchanged(lines[k], OutLines[k], spans[n][1], spans[n][2])


\* C4: a tag pattern match whose name is preserved (a known element name or
\* uppercase-initial) is emitted unchanged, braces of its attribute tail
\* included; the div and the MyComponent examples are returned unchanged.
C4_PreserveTagFidelity ==
    pc = "done" =>
        /\ \A k \in 1..Len(lines) :
            Processed(lines, k) =>
                \A m \in TagMatchesOf(lines[k]) :
                    IsPreservedName(m[3]) =>
                        CopiedUnchanged(lines[k], OutLines[k], m[1], m[2])
        /\ content = DivExample => result = DivExample
        /\ content = ComponentExample => result = ComponentExample

\* The MyComponent example, braces in its tail, returned as it was.
C4_Witness ==
    /\ pc = "done"
    /\ calls = 1
    /\ content = ComponentExample
    /\ \E m \in TagMatchesOf(content) :
        /\ IsPreservedName(m[3])
        /\ \E p \in m[1]..m[2] : content[p] = "{"
    /\ result = ComponentExample

GenericEscaped == Chars("List\\<T\\> maps keys to values")
LowerGenericEscaped == Chars("List\\<t\\> maps keys to values")

\* C5 as stated: the input List<T> maps keys to values comes back with both
\* angle brackets of <T> backslash-prefixed.
C5_GenericEscaped ==
    (pc = "done" /\ content = GenericExample) => result = GenericEscaped

\* C5, amended: List<T> maps keys to values is returned unchanged, T being
\* uppercase-initial and so preserved; with the lowercase unknown name t both
\* angle brackets are backslash-prefixed.
C5_GenericByCase ==
    pc = "done" =>
        /\ content = GenericExample => result = GenericExample
        /\ content = LowerGenericExample => result = LowerGenericEscaped

\* The generic-type example sanitized.
C5_Witness ==
    /\ pc = "done"
    /\ calls = 1
    /\ content = GenericExample
    /\ result = GenericExample

\* An output line holds no live syntax: no tag pattern match with a bare '<'
\* and a name that is not preserved, and no brace without a backslash before
\* it other than in inline code or in a preserved tag.
NoLiveSyntax(out) ==
    /\ \A m \in TagMatchesOf(out) :
        IsPreservedName(m[3]) \/ (m[1] > 1 /\ out[m[1] - 1] = BS)
    /\ \A p \in 1..Len(out) :
        out[p] \in {"{", "}"} =>
            \/ p > 1 /\ out[p - 1] = BS
            \/ InInlineCode(out, p)
            \/ InPreservedTag(out, p)

\* C6: the output holds no unescaped brace and no bare <X> or <X ...> except
\* in a fenced block, in an inline code span or where X is preserved (stated
\* for the lines the sanitizer processes).
C6_OutputInvariant ==
    pc = "done" =>
        \A k \in 1..Len(OutLines) :
            Processed(OutLines, k) => NoLiveSyntax(OutLines[k])

\* C7: on a processed line every brace that has no backslash before it and
\* lies neither in inline code nor in a preserved tag has a backslash before it
\* in the output, also inside a tag-like match that is escaped.
C7_BracesEscaped ==
    pc = "done" =>
        \A k \in 1..Len(lines) :
            Processed(lines, k) =>
                LET line == lines[k]
                    out == OutLines[k]
                    at == AlignFrom(line, out, 1, 1)
                IN \A p \in 1..Len(line) :
                    ( /\ line[p] \in {"{", "}"}
                      /\ ~(p > 1 /\ line[p - 1] = BS)
                      /\ ~InInlineCode(line, p)
                      /\ ~InPreservedTag(line, p) )
                    => (at[p] > 1 /\ out[at[p] - 1] = BS)

\* C9: outside a fence, a line that starts with a heading marker, a blockquote
\* marker or a list bullet is returned unmodified, whatever it holds; so is
\* the line ## <Heading> discussion.
C9_StructuralPassthrough ==
    pc = "done" =>
        /\ \A k \in 1..Len(lines) :
            (OutsideFence(lines, k) /\ HasStructuralMarker(lines[k]))
                => OutLines[k] = lines[k]
        /\ content = HeadingExample => result = HeadingExample

\* A structural line that the escaper would have changed, returned as it was.
C9_Witness ==
    /\ pc = "done"
    /\ \E k \in 1..Len(lines) :
        /\ OutsideFence(lines, k)
        /\ HasStructuralMarker(lines[k])
        /\ process_spans(lines[k], inline_code_spans(lines[k], 1), 1) # lines[k]
        /\ OutLines[k] = lines[k]

EndToEndExpected ==
    Chars("# Title\nSome ") \o <<BT>> \o Chars("code<T>") \o <<BT>>
    \o Chars(" and a real <div>tag</div> plus stray <Foo> bar and \\{braces\\}.")

\* C10: the end-to-end example comes back with {braces} escaped and nothing
\* else changed.
C10_EndToEnd ==
    (pc = "done" /\ content = EndToEndExample) => result = EndToEndExpected

\* The end-to-end example sanitized.
C10_Witness ==
    /\ pc = "done"
    /\ calls = 1
    /\ content = EndToEndExample
    /\ result = EndToEndExpected
    /\ result # content


\* text holds seq as a substring.
Occurs(text, seq) ==
    \E p \in 1..(Len(text) - Len(seq) + 1) : SubSeq(text, p, p + Len(seq) - 1) = seq

\* C8: after clean_api_doc has run on an existing, readable and writable
\* file, no line of the file outside fenced code blocks holds <ES> or another
\* entry of the substitution table: each has been rewritten.
C8_DenylistSubstituted ==
    (cl_pc = "done" /\ api_doc_exists /\ api_doc_perm = "rw") =>
        LET ls == Split(api_doc) IN
        \A k \in 1..Len(ls) :
            OutsideFence(ls, k) =>
                \A n \in 1..Len(problematic_sequences) :
                    ~Occurs(ls[k], problematic_sequences[n][1])

\* C12: for every element name n of the preserve set, the line <n>text</n>
\* outside a fence, text free of special characters, is returned unchanged:
\* the > that ends the closing tag is never escaped.
C12_PairedTagUntouched ==
    (pc = "done" /\ calls = 1 /\ content \in PairedTagExamples) => result = content

\* The value is a text: a sequence of characters.
IsText(t) == t \in Seq({t[k] : k \in 1..Len(t)})

\* C13: the sanitizer never raises and always terminates: a call under way
\* can always take its next step, whatever the input (an empty text is
\* returned, any other is split into at least one line, a delimiter toggles, a
\* line in a code block is kept, a line outside one is processed to a text,
\* and past the last line the call returns), the loop visits each line once,
\* the returned value is a text, and an empty input is returned as it is.
C13_NeverRaises ==
    /\ pc = "call" =>
           IF content = <<>> THEN ENABLED ReturnEmpty ELSE Len(Split(content)) >= 1
    /\ (pc = "loop" /\ i <= Len(lines)) =>
           \/ ENABLED FenceLine
           \/ ENABLED CodeLine
           \/ (~code_block_match(lines[i]) /\ ~in_code_block
                  /\ IsText(process_line(lines[i])))
    /\ (pc = "loop" /\ i > Len(lines)) => ENABLED Return
    /\ pc = "loop" => i \in 1..(Len(lines) + 1) /\ Len(processed_lines) = i - 1
    /\ pc = "done" => IsText(result)
    /\ (pc = "done" /\ content = <<>>) => result = content

\* The malformed example has been sanitized and come back.
C13_Witness ==
    /\ pc = "done" /\ calls = 1
    /\ content = MalformedExample
    /\ in_code_block
    /\ result = MalformedExample

\* The lines of the argument of the call.
InLines == Split(content)

\* C14: the output has exactly as many lines as the input, and an output line
\* is a function of the input line at its place and of the fence state there:
\* two equal lines of a document that follow the same parity of delimiters
\* come back equal.
C14_LineCount ==
    pc = "done" =>
        /\ Len(OutLines) = Len(InLines)
        /\ \A j, k \in 1..Len(InLines) :
               (InLines[j] = InLines[k]
                  /\ FenceCount(InLines, j - 1) % 2 = FenceCount(InLines, k - 1) % 2)
               => OutLines[j] = OutLines[k]

\* A three-line document has come back: its first and last line are equal,
\* both outside a fence and both changed, with a blank line between them.
C14_Witness ==
    /\ pc = "done" /\ calls = 1
    /\ Len(InLines) = 3
    /\ InLines[1] = InLines[3] /\ InLines[2] = <<>>
    /\ OutsideFence(InLines, 1) /\ OutsideFence(InLines, 3)
    /\ OutLines[1] # InLines[1]
    /\ OutLines[2] = <<>>

\* Line k of ls comes after the last fence delimiter of ls.
AfterLastDelimiter(ls, k) == \A j \in k..Len(ls) : ~IsFenceDelimiter(ls[j])

\* C20: when the number of fence delimiter lines of the input is odd, every
\* line after the last delimiter is returned unchanged, and the call returns:
\* at the end of the lines, inside the open fence, the return is enabled.
C20_UnterminatedFence ==
    /\ (pc = "loop" /\ i > Len(lines) /\ in_code_block) => ENABLED Return
    /\ (pc = "done" /\ FenceCount(InLines, Len(InLines)) % 2 = 1) =>
           \A k \in 1..Len(InLines) :
               AfterLastDelimiter(InLines, k) => OutLines[k] = InLines[k]

\* A document with one delimiter has come back; a line after the delimiter
\* that the sanitizer would change outside a fence is unchanged.
C20_Witness ==
    /\ pc = "done" /\ calls = 1
    /\ FenceCount(InLines, Len(InLines)) = 1
    /\ \E k \in 1..Len(InLines) :
           /\ AfterLastDelimiter(InLines, k)
           /\ process_line(InLines[k]) # InLines[k]
           /\ OutLines[k] = InLines[k]

\* The whitespace-trimmed line is three backticks, optionally followed by a
\* language tag.
IsTrimmedDelimiter(line) == IsFenceDelimiter(Strip(line))

\* The number of such lines among the first k lines of ls.
TrimmedFenceCount(ls, k) == Cardinality({j \in 1..k : IsTrimmedDelimiter(ls[j])})

\* C19: starting outside a fence, the fence flag of the sanitizer toggles on
\* exactly the lines whose whitespace-trimmed content is three backticks,
\* optionally followed by a language tag: at every line the flag says whether
\* an odd number of such lines came before, which is the state clean_api_doc
\* assigns to the line.
C19_FenceFlagByTrimmedLine ==
    pc = "loop" => (in_code_block <=> TrimmedFenceCount(lines, i - 1) % 2 = 1)

\* C16: clean_api_doc returns normally for every path: a call is under way
\* or has returned, never left by an exception, and a call under way always
\* has a next step; a failure of open() is logged.  For a path that does not
\* exist it opens nothing, and the file still does not exist afterwards.
C16_NonFatal ==
    /\ cl_pc \in {"call", "fix1", "fix2", "write", "done"}
    /\ cl_pc = "call" => ENABLED (CleanMissing \/ CleanRead \/ CleanReadFails)
    /\ cl_pc = "fix1" => IsText(fix_type_parameters(cl_content, 1))
    /\ (cl_pc = "fix2" /\ cl_i <= Len(cl_lines)) =>
           ENABLED (CleanFenceLine \/ CleanPlainLine \/ CleanSuspiciousLine)
    /\ (cl_pc = "fix2" /\ cl_i > Len(cl_lines)) =>
           IsText(replace_sequences(Join(cl_lines), problematic_sequences))
    /\ cl_pc = "write" => ENABLED (CleanWrite \/ CleanWriteFails)
    /\ (cl_pc = "done" /\ api_doc_exists /\ api_doc_perm = "r"
          /\ cl_opens = <<"r", "w">>) => cl_error
    /\ (cl_pc = "done" /\ api_doc_exists /\ api_doc_perm = "w") =>
           cl_error /\ cl_opens = <<"r">>
    /\ ~api_doc_exists => cl_opens = <<>> /\ api_doc = <<>> /\ ~cl_error

\* A call on a file that can be read but not written has returned: it opened
\* the file twice and logged the failure of the second open().
C16_Witness ==
    /\ cl_pc = "done"
    /\ api_doc_exists /\ api_doc_perm = "r"
    /\ cl_opens = <<"r", "w">>
    /\ cl_error

\* C15: two invocations interleaved line by line in any order each return
\* what they return alone, and every invocation starts outside a fence, also
\* the one called after an invocation that ended inside an open fence.
C15_Independent ==
    /\ pc = "done" => result = escape_mdx_special_characters(content)
    /\ pc2 = "done" => result2 = escape_mdx_special_characters(content2)
    /\ (pc = "loop" /\ i = 1) => ~in_code_block
    /\ (pc2 = "loop" /\ i2 = 1) => ~in_code_block2
    /\ pc = "loop" =>
           processed_lines = SubSeq(sanitize_lines(lines, 1, FALSE), 1, i - 1)
    /\ pc2 = "loop" =>
           processed_lines2 = SubSeq(sanitize_lines(lines2, 1, FALSE), 1, i2 - 1)

\* Both invocations are at their second line, one inside a fence and one
\* outside; the second was called after an invocation that had ended inside
\* an open fence, and it has escaped its first line.
C15_Witness ==
    /\ pc = "loop" /\ i = 2 /\ in_code_block
    /\ pc2 = "loop" /\ i2 = 2 /\ ~in_code_block2
    /\ calls2 = 2
    /\ FenceCount(Split(result2), Len(Split(result2))) = 1
    /\ processed_lines2 # <<lines2[1]>>

\* The last call made on a collaborator, or no call.
LastCalled == IF called = <<>> THEN <<"none">> ELSE called[Len(called)]

\* How often, and where, a call stands in the calls made.
CallCount(e) == Cardinality({j \in 1..Len(called) : called[j] = e})
CallPlace(e) == CHOOSE j \in 1..Len(called) : called[j] = e

\* C11: every section file is written with content that has passed through
\* the general sanitizer: right after a section is written its file holds the
\* frontmatter and the sanitized content; and when generation has succeeded
\* with an API section, the API cleaner has been called.
C11_SanitizedBeforeWrite ==
    /\ \A k \in 1..Len(section_ids) :
           (LastCalled = <<"write", section_ids[k]>> /\ docs[k].exists /\ ~raised) =>
               docs[k].text = frontmatter(k) \o escape_mdx_special_characters(gen_content)
    /\ (gen_pc = "done" /\ gen_result = "True" /\ docs[3].exists) =>
           CallCount(<<"clean_api_doc">>) >= 1

\* The steps of a generation that the claim counts.
CountedSteps ==
    {<<"clone_template">>, <<"analyze">>, <<"update_config">>, <<"update_sidebars">>}
    \cup {<<"generate", section_ids[k]>> : k \in 1..Len(section_ids)}

\* C17: when clone_template returned True and no step raised, generate returns
\* True, having called clone_template, analyze, the generate of each of the
\* five section generators, update_config and update_sidebars once each:
\* clone before analyze, analyze before every section generator, every write
\* of a section before update_config and update_sidebars; the docs directory
\* exists.
C17_StepsOnceInOrder ==
    (gen_pc = "done" /\ cloned = "True" /\ ~raised) =>
        /\ gen_result = "True"
        /\ \A e \in CountedSteps : CallCount(e) = 1
        /\ CallPlace(<<"clone_template">>) < CallPlace(<<"analyze">>)
        /\ \A k \in 1..Len(section_ids) :
               CallPlace(<<"analyze">>) < CallPlace(<<"generate", section_ids[k]>>)
        /\ \A j \in 1..Len(called) :
               called[j][1] = "write" =>
                   /\ j < CallPlace(<<"update_config">>)
                   /\ j < CallPlace(<<"update_sidebars">>)
        /\ docs_dir

\* A generation has returned True; the docs directory was not there before,
\* four sections were written and one generator returned nothing.
C17_Witness ==
    /\ gen_pc = "done" /\ gen_result = "True"
    /\ Cardinality({k \in DOMAIN docs : docs[k].exists}) = 4
    /\ ~docs[2].exists
    /\ docs_dir

\* C18: enhance never raises and falls back to the original content: right
\* after a call of enhance, generate goes on to write the section, and the
\* content is the original when the provider raised or returned None or an
\* empty text, and the text of the provider otherwise.
C18_EnhanceFallsBack ==
    LastCalled[1] = "enhance" =>
        /\ gen_pc = "write" /\ ~raised /\ gen_result = "none"
        /\ gen_content =
              IF enh_outcome.kind \in {"raises", "None"} \/ enh_outcome.text = <<>>
              THEN enh_content
              ELSE enh_outcome.text

\* enhance has returned the original content after the provider returned an
\* empty text.
C18_Witness ==
    /\ LastCalled[1] = "enhance"
    /\ enh_outcome = [kind |-> "text", text |-> <<>>]
    /\ gen_content = enh_content
    /\ gen_content # <<>>

\* Line k of ls lies inside a fenced block as clean_api_doc tells fences: it
\* follows an odd number of trimmed delimiter lines and is none itself.
InsideTrimmedFence(ls, k) ==
    ~IsTrimmedDelimiter(ls[k]) /\ TrimmedFenceCount(ls, k - 1) % 2 = 1

\* C21: whenever clean_api_doc rewrites the file, the file keeps its number
\* of lines and every line inside a fenced code block, the lines after an
\* unterminated fence included, is the same after the write as before it.
C21_FencedContentAlone ==
    [][api_doc' # api_doc =>
          LET before == Split(api_doc)
              after == Split(api_doc')
          IN /\ Len(after) = Len(before)
             /\ \A k \in 1..Len(before) :
                    InsideTrimmedFence(before, k) => after[k] = before[k]]_vars

\* A tag-like <name starts at index p of line that is not closed on the line:
\* the name is not followed by '/' or '>', blanks apart, and no </name>
\* comes later on the line.
UnclosedTagAt(line, p) ==
    /\ line[p] = "<"
    /\ p < Len(line)
    /\ IsLetter(line[p + 1])
    /\ LET e == WordEnd(line, p + 1)
           name == SubSeq(line, p + 1, e)
           rest == LStrip(SubSeq(line, e + 1, Len(line)))
       IN /\ rest = <<>> \/ rest[1] \notin {"/", ">"}
          /\ ~Occurs(SubSeq(line, e + 1, Len(line)), <<"<", "/">> \o name \o <<">">>)

\* C26: after clean_api_doc has run on an existing, readable and writable
\* file, the file has been written back without an error, and on every line
\* outside fenced code blocks that holds both '<' and '>' the opening bracket
\* of each unclosed tag-like <name has a backslash in front.
C26_UnclosedTagEscaped ==
    (cl_pc = "done" /\ api_doc_exists /\ api_doc_perm = "rw") =>
        /\ ~cl_error
        /\ cl_opens = <<"r", "w">>
        /\ LET ls == Split(api_doc) IN
           \A k \in 1..Len(ls) :
               (~IsTrimmedDelimiter(ls[k]) /\ ~InsideTrimmedFence(ls, k)
                  /\ suspicious(ls[k])) =>
                   \A p \in 1..Len(ls[k]) :
                       UnclosedTagAt(ls[k], p) => (p > 1 /\ ls[k][p - 1] = BS)

\* C29: clean_api_doc opens the file for writing at most once, as the last
\* step of the call and after the three fixes; the content of the file
\* changes in that step only, to the content the fixes produced, and never
\* in a call that logs an error: when a step before the write raises, the
\* file holds what it held before the call.
C29_AllOrNothing ==
    [][/\ cl_opens' # cl_opens /\ cl_opens'[Len(cl_opens')] = "w" =>
              /\ cl_pc = "write" /\ cl_pc' = "done"
              /\ \A n \in 1..Len(cl_opens) : cl_opens[n] # "w"
       /\ api_doc' # api_doc =>
              /\ cl_pc = "write" /\ cl_pc' = "done"
              /\ api_doc' = cl_content
              /\ ~cl_error /\ ~cl_error'
       /\ cl_error' => api_doc' = api_doc]_vars

\* A call on a writable file has returned after fix 2 raised: fix 1 had
\* changed the content in memory, the file was opened for reading only and
\* holds another text than the changed content.
C29_Witness ==
    /\ cl_pc = "done"
    /\ api_doc_exists /\ api_doc_perm = "rw"
    /\ cl_error
    /\ cl_opens = <<"r">>
    /\ cl_content # api_doc
    /\ cl_content = fix_type_parameters(api_doc, 1)

\* The indices of the '{', '}', '<' and '>' of text, left to right.
SpecialIndices(text) ==
    SelectSeq([k \in 1..Len(text) |-> k], LAMBDA k : IsSpecial(text[k]))

\* out is text with a backslash inserted immediately before some of its
\* '{', '}', '<' and '>', every character of text kept in its place: both
\* hold the same brackets and braces in the same order, and the stretch
\* before each of them is the one of text, or that one and a backslash.
IsEscapeInsertion(text, out) ==
    LET a == SpecialIndices(text)
        b == SpecialIndices(out)
        Stretch(s, at, n) ==
            SubSeq(s, IF n = 1 THEN 1 ELSE at[n - 1] + 1,
                      IF n > Len(at) THEN Len(s) ELSE at[n] - 1)
    IN /\ Len(b) = Len(a)
       /\ \A n \in 1..Len(a) :
              /\ out[b[n]] = text[a[n]]
              /\ Stretch(out, b, n) \in {Stretch(text, a, n), Stretch(text, a, n) \o <<BS>>}
       /\ Stretch(out, b, Len(b) + 1) = Stretch(text, a, Len(a) + 1)

\* C30: what escape_mdx_special_characters returns is its argument with
\* backslashes inserted immediately before occurrences of '{', '}', '<' or
\* '>' and nothing else changed; it is never shorter than the argument.
C30_OnlyInsertsBackslashes ==
    pc = "done" =>
        /\ IsEscapeInsertion(content, result)
        /\ Len(result) >= Len(content)

\* A text of several lines has come back at least three characters longer.
C30_Witness ==
    /\ pc = "done" /\ calls = 1
    /\ Len(InLines) >= 2
    /\ Len(result) >= Len(content) + 3

\* The number of backslashes that stand immediately before index p of text.
RECURSIVE BackslashRun(_, _)
BackslashRun(text, p) ==
    IF p > 1 /\ text[p - 1] = BS THEN 1 + BackslashRun(text, p - 1) ELSE 0

\* C23: the returned text holds the '{', '}', '<' and '>' of the argument in
\* their order, and each of them that has a backslash immediately before it
\* in the argument has the same backslashes before it in the returned text:
\* none is inserted in front of a character that is already escaped.
C23_NoDoubleEscaping ==
    pc = "done" =>
        LET a == SpecialIndices(content)
            b == SpecialIndices(result)
        IN /\ Len(b) = Len(a)
           /\ \A n \in 1..Len(a) :
                  BackslashRun(content, a[n]) >= 1 =>
                      BackslashRun(result, b[n]) = BackslashRun(content, a[n])

\* image stands in out where the stretch s..e of line stood, between what the
\* text before it and the text after it became.
StandsAs(line, out, s, e, image) ==
    \E k \in 1..Len(out) :
        /\ k + Len(image) - 1 <= Len(out)
        /\ SubSeq(out, k, k + Len(image) - 1) = image
        /\ IsBackslashInsertion(SubSeq(line, 1, s - 1), SubSeq(out, 1, k - 1))
        /\ IsBackslashInsertion(SubSeq(line, e + 1, Len(line)),
                                SubSeq(out, k + Len(image), Len(out)))

\* tag with a backslash before its first and before its last character.
OuterBracketsPrefixed(tag) ==
    <<BS>> \o SubSeq(tag, 1, Len(tag) - 1) \o <<BS, tag[Len(tag)]>>

\* tag with a backslash before every '<' and every '>'.
RECURSIVE EveryBracketPrefixed(_)
EveryBracketPrefixed(tag) ==
    IF tag = <<>> THEN <<>>
    ELSE (IF tag[1] \in {"<", ">"} THEN <<BS, tag[1]>> ELSE <<tag[1]>>)
         \o EveryBracketPrefixed(Tail(tag))

\* The tag matches of line whose name is not preserved.
UnknownTagMatches(line) == {m \in TagMatchesOf(line) : ~IsPreservedName(m[3])}

\* C24 as stated: on a processed line, every tag match whose name is not
\* preserved stands in the returned line with a backslash before its opening
\* '<' and before its closing '>' and nothing else changed.
C24_OpeningClosingOnly ==
    pc = "done" =>
        \A k \in 1..Len(InLines) :
            Processed(InLines, k) =>
                \A m \in UnknownTagMatches(InLines[k]) :
                    StandsAs(InLines[k], OutLines[k], m[1], m[2],
                             OuterBracketsPrefixed(SubSeq(InLines[k], m[1], m[2])))

\* C24: on a processed line, every tag match whose name is not preserved
\* stands in the returned line with a backslash before every '<' and every
\* '>' it holds, the '<' of its attribute-like tail included, and nothing
\* else changed.
C24_EveryBracketOfMatch ==
    pc = "done" =>
        \A k \in 1..Len(InLines) :
            Processed(InLines, k) =>
                \A m \in UnknownTagMatches(InLines[k]) :
                    StandsAs(InLines[k], OutLines[k], m[1], m[2],
                             EveryBracketPrefixed(SubSeq(InLines[k], m[1], m[2])))

\* The line whose unknown tag holds a second '<' has come back with three
\* backslashes.
C24_Witness ==
    /\ pc = "done" /\ calls = 1
    /\ content = NestedBracketExample
    /\ UnknownTagMatches(content) = {<<3, 8, <<"t">>>>}
    /\ result = Chars("x \\<t \\<a\\> y")

\* line starts with a heading marker: one to six '#' and a blank.
HasHeadingMarker(line) ==
    LET n == LeadingHashes(line) IN
    n \in 1..6 /\ Len(line) > n /\ IsSpace(line[n + 1])

\* C25: a heading line outside a fence comes back with its marker, the '#'
\* and the blank after them, untouched, and the text after the marker
\* escaped as prose: it holds no brace and no unknown tag without a
\* backslash.
C25_OnlyMarkerExempt ==
    pc = "done" =>
        \A k \in 1..Len(InLines) :
            (OutsideFence(InLines, k) /\ HasHeadingMarker(InLines[k])) =>
                LET n == LeadingHashes(InLines[k])
                    out == OutLines[k]
                IN /\ Len(out) > n
                   /\ SubSeq(out, 1, n + 1) = SubSeq(InLines[k], 1, n + 1)
                   /\ NoLiveSyntax(SubSeq(out, n + 2, Len(out)))

\* C25: the exemption covers the whole heading line, not the marker alone: a
\* heading line outside a fence comes back as it is, the braces and the
\* unknown tags of the text after the marker without a backslash.
C25_HeadingLineExempt ==
    pc = "done" =>
        \A k \in 1..Len(InLines) :
            (OutsideFence(InLines, k) /\ HasHeadingMarker(InLines[k])) =>
                OutLines[k] = InLines[k]

\* The heading with a bare unknown tag and bare braces after the marker has
\* come back unchanged, and its text alone would have been escaped.
C25_Witness ==
    /\ pc = "done" /\ calls = 1
    /\ content = HeadingTextExample
    /\ result = content
    /\ ~NoLiveSyntax(SubSeq(result, 4, Len(result)))
    /\ process_line(SubSeq(content, 4, Len(content))) # SubSeq(content, 4, Len(content))

\* Index p of line lies in prose between tag matches: in no inline code span
\* and in no match of the tag pattern.
InStrayProse(line, p) ==
    /\ ~InInlineCode(line, p)
    /\ \A m \in TagMatchesOf(line) : ~(m[1] <= p /\ p <= m[2])

\* Index p of line holds a '<' or a '>' with no backslash before it.
BareBracketAt(line, p) ==
    line[p] \in {"<", ">"} /\ ~(p > 1 /\ line[p - 1] = BS)

\* The index in out of the bracket or brace at index p of line: out holds the
\* brackets and braces of line in their order; 0 when it holds fewer.
ImageOfSpecial(line, out, p) ==
    LET n == Cardinality({j \in 1..p : IsSpecial(line[j])})
        b == SpecialIndices(out)
    IN IF n <= Len(b) THEN b[n] ELSE 0

\* The character after index p of line, the one before it: is one and is in S.
FollowedBy(line, p, S) == p < Len(line) /\ line[p + 1] \in S
PrecededBy(line, p, S) == p > 1 /\ line[p - 1] \in S

\* C27 as stated: on a processed line, in prose between tag matches, every
\* bare '<' that is not followed by a letter and every bare '>' that is not
\* preceded by a letter has a backslash before it in the returned line.
C27_StrayByLetter ==
    pc = "done" =>
        \A k \in 1..Len(InLines) :
            Processed(InLines, k) =>
                LET line == InLines[k]
                    out == OutLines[k]
                    at == [p \in 1..Len(line) |->
                              IF IsSpecial(line[p]) THEN ImageOfSpecial(line, out, p) ELSE 0]
                IN \A p \in 1..Len(line) :
                    ( /\ InStrayProse(line, p)
                      /\ BareBracketAt(line, p)
                      /\ \/ line[p] = "<" /\ ~FollowedBy(line, p, Lowers \cup Uppers)
                         \/ line[p] = ">" /\ ~PrecededBy(line, p, Lowers \cup Uppers) )
                    => (at[p] > 1 /\ out[at[p] - 1] = BS)

\* C27: on a processed line, in prose between tag matches, every bare '<'
\* that is followed neither by a letter nor by '/' and every bare '>' that is
\* preceded neither by a letter nor by '/' has a backslash before it in the
\* returned line; next to a '/' the bracket is left as it is.
C27_StrayByLetterOrSlash ==
    pc = "done" =>
        \A k \in 1..Len(InLines) :
            Processed(InLines, k) =>
                LET line == InLines[k]
                    out == OutLines[k]
                    at == [p \in 1..Len(line) |->
                              IF IsSpecial(line[p]) THEN ImageOfSpecial(line, out, p) ELSE 0]
                IN \A p \in 1..Len(line) :
                    ( /\ InStrayProse(line, p)
                      /\ BareBracketAt(line, p) )
                    => IF \/ line[p] = "<" /\ FollowedBy(line, p, {"/"})
                          \/ line[p] = ">" /\ PrecededBy(line, p, {"/"})
                       THEN at[p] > 0 /\ ~(at[p] > 1 /\ out[at[p] - 1] = BS)
                       ELSE ( \/ line[p] = "<" /\ ~FollowedBy(line, p, Lowers \cup Uppers)
                              \/ line[p] = ">" /\ ~PrecededBy(line, p, Lowers \cup Uppers) )
                            => (at[p] > 1 /\ out[at[p] - 1] = BS)

\* The arrow has come back with a backslash before its '>'.
C27_Witness ==
    /\ pc = "done" /\ calls = 1
    /\ content = Chars("a -> b")
    /\ InStrayProse(content, 4)
    /\ result = Chars("a -\\> b")

\* The indices of the backticks of line, left to right.
BacktickIndices(line) ==
    SelectSeq([k \in 1..Len(line) |-> k], LAMBDA k : line[k] = BT)

\* The backticks of line are single ones, an odd number of them: no two stand
\* next to each other.
OddSingleBackticks(line) ==
    LET b == BacktickIndices(line) IN
    /\ Len(b) % 2 = 1
    /\ \A n \in 1..(Len(b) - 1) : b[n + 1] > b[n] + 1

\* The backticks paired left to right: the first with the second, the third
\* with the fourth; the last of an odd number is left over.
LeftToRightPairs(b) == [n \in 1..(Len(b) \div 2) |-> <<b[2 * n - 1], b[2 * n]>>]

\* The last prose stretch of line: the text after the closing backtick of
\* its last pair, the unpaired backtick included; the whole line when it has
\* no pair.
LastProse(line) ==
    LET b == BacktickIndices(line) IN
    IF Len(b) < 2 THEN line
    ELSE SubSeq(line, b[2 * (Len(b) \div 2)] + 1, Len(line))

\* The first prose stretch of line: the text before the opening backtick of
\* its first pair; the whole line when it has no pair.
FirstProse(line) ==
    LET b == BacktickIndices(line) IN
    IF Len(b) < 2 THEN line ELSE SubSeq(line, 1, b[1] - 1)

\* C22: on a processed line with an odd number of single backticks the code
\* spans are the backticks paired left to right, and the text after the last
\* pair, from the unpaired backtick to the end of the line, comes back
\* escaped as prose; the open backtick does not reach the next line, whose
\* text up to its first pair comes back escaped as prose too.
C22_UnmatchedBacktick ==
    pc = "done" =>
        \A k \in 1..Len(InLines) :
            (Processed(InLines, k) /\ OddSingleBackticks(InLines[k])) =>
                /\ inline_code_spans(InLines[k], 1)
                       = LeftToRightPairs(BacktickIndices(InLines[k]))
                /\ Len(BacktickIndices(OutLines[k])) = Len(BacktickIndices(InLines[k]))
                /\ LastProse(OutLines[k]) = process_text(LastProse(InLines[k]))
                /\ (k < Len(InLines) /\ Processed(InLines, k + 1)) =>
                       FirstProse(OutLines[k + 1])
                           = process_text(FirstProse(InLines[k + 1]))

\* The two lines with one backtick each have come back with every brace
\* escaped, the braces between the two backticks included.
C22_Witness ==
    /\ pc = "done" /\ calls = 1
    /\ content = UnmatchedBacktickExample
    /\ OddSingleBackticks(InLines[1]) /\ OddSingleBackticks(InLines[2])
    /\ result = <<BT>> \o Chars("\\{a\\}\n\\{b\\}") \o <<BT>> \o Chars(" \\{c\\}")

\* ------------------------------------------------------------ SiteReviser.revise

\* The files docs/overview.md may be: missing, one that open() fails on, an
\* empty one, one with text, one with frontmatter and text.
OverviewFiles == {
    NoOverview,
    [exists |-> TRUE, readable |-> FALSE, text |-> Chars("# x")],
    [exists |-> TRUE, readable |-> TRUE, text |-> <<>>],
    [exists |-> TRUE, readable |-> TRUE, text |-> Chars("# x")],
    [exists |-> TRUE, readable |-> TRUE, text |-> Chars("# x\r\ny\r")],
    [exists |-> TRUE, readable |-> TRUE, text |-> Chars("---\nid: overview\n---\n# x")]
}

\* What a call of one of the four _update_..._with_ai methods does: it returns
\* True, returns False, or raises before its own try.
UpdateOutcomes == {"True", "False", "raise"}

\* _read_overview_content: the content of the file, or None when open() raises.
read_overview_content(file) ==
    IF file.readable THEN Str(universal_newlines(file.text)) ELSE None

\* not overview_content
falsy(value) == value.kind = "None" \/ value.text = <<>>

ReviseInit ==
    /\ SanitizerIdle
    /\ CleanIdle
    /\ TwoIdle
    /\ GenIdle
    /\ rv_docs_dir \in BOOLEAN
    /\ rv_pages_dir \in BOOLEAN
    /\ rv_ai_enhancer \in BOOLEAN
    /\ rv_overview \in OverviewFiles
    /\ rv_pc = "call"
    /\ rv_overview_content = None
    /\ rv_overall_success = FALSE
    /\ rv_attempts = <<>>
    /\ rv_result = "none"

\* What a step of revise leaves alone.
revrest == <<sanvars, clvars, twovars, genvars>>

\* if not os.path.exists(self.docs_dir): return False
ReviseNoDocsDir ==
    /\ rv_pc = "call"
    /\ ~rv_docs_dir
    /\ rv_result' = "False"
    /\ rv_pc' = "done"
    /\ UNCHANGED <<rv_docs_dir, rv_pages_dir, rv_ai_enhancer, rv_overview,
                   rv_overview_content, rv_overall_success, rv_attempts>>
    /\ UNCHANGED revrest

\* if not os.path.exists(self.pages_dir): return False
ReviseNoPagesDir ==
    /\ rv_pc = "call"
    /\ rv_docs_dir
    /\ ~rv_pages_dir
    /\ rv_result' = "False"
    /\ rv_pc' = "done"
    /\ UNCHANGED <<rv_docs_dir, rv_pages_dir, rv_ai_enhancer, rv_overview,
                   rv_overview_content, rv_overall_success, rv_attempts>>
    /\ UNCHANGED revrest

\* if not self.ai_enhancer: return False
ReviseNoEnhancer ==
    /\ rv_pc = "call"
    /\ rv_docs_dir
    /\ rv_pages_dir
    /\ ~rv_ai_enhancer
    /\ rv_result' = "False"
    /\ rv_pc' = "done"
    /\ UNCHANGED <<rv_docs_dir, rv_pages_dir, rv_ai_enhancer, rv_overview,
                   rv_overview_content, rv_overall_success, rv_attempts>>
    /\ UNCHANGED revrest

\* if not os.path.exists(overview_path): return False
ReviseNoOverview ==
    /\ rv_pc = "call"
    /\ rv_docs_dir
    /\ rv_pages_dir
    /\ rv_ai_enhancer
    /\ ~rv_overview.exists
    /\ rv_result' = "False"
    /\ rv_pc' = "done"
    /\ UNCHANGED <<rv_docs_dir, rv_pages_dir, rv_ai_enhancer, rv_overview,
                   rv_overview_content, rv_overall_success, rv_attempts>>
    /\ UNCHANGED revrest

\* overview_content = self._read_overview_content(overview_path)
ReadOverview ==
    /\ rv_pc = "call"
    /\ rv_docs_dir
    /\ rv_pages_dir
    /\ rv_ai_enhancer
    /\ rv_overview.exists
    /\ rv_overview_content' = read_overview_content(rv_overview)
    /\ rv_pc' = "read"
    /\ UNCHANGED <<rv_docs_dir, rv_pages_dir, rv_ai_enhancer, rv_overview,
                   rv_overall_success, rv_attempts, rv_result>>
    /\ UNCHANGED revrest

\* if not overview_content: return False
ReviseNoContent ==
    /\ rv_pc = "read"
    /\ falsy(rv_overview_content)
    /\ rv_result' = "False"
    /\ rv_pc' = "done"
    /\ UNCHANGED <<rv_docs_dir, rv_pages_dir, rv_ai_enhancer, rv_overview,
                   rv_overview_content, rv_overall_success, rv_attempts>>
    /\ UNCHANGED revrest

\* overall_success = True
StartUpdates ==
    /\ rv_pc = "read"
    /\ ~falsy(rv_overview_content)
    /\ rv_overall_success' = TRUE
    /\ rv_pc' = "index_js"
    /\ UNCHANGED <<rv_docs_dir, rv_pages_dir, rv_ai_enhancer, rv_overview,
                   rv_overview_content, rv_attempts, rv_result>>
    /\ UNCHANGED revrest

\* An update of index.js outside a try: its exception reaches the handler
\* of revise, which returns False.
UpdateIndexJs_unguarded ==
    /\ rv_pc = "index_js"
    /\ \E outcome \in UpdateOutcomes :
        /\ rv_attempts' = Append(rv_attempts, <<"index_js", outcome>>)
        /\ rv_overall_success' = (rv_overall_success /\ outcome = "True")
        /\ rv_pc' = IF outcome = "raise" THEN "done" ELSE "features"
        /\ rv_result' = IF outcome = "raise" THEN "False" ELSE rv_result
    /\ UNCHANGED <<rv_docs_dir, rv_pages_dir, rv_ai_enhancer, rv_overview,
                   rv_overview_content>>
    /\ UNCHANGED revrest

\* try: if not self._update_index_js_with_ai(...): overall_success = False
\* except Exception: overall_success = False
UpdateIndexJs ==
    /\ rv_pc = "index_js"
    /\ \E outcome \in UpdateOutcomes :
        /\ rv_attempts' = Append(rv_attempts, <<"index_js", outcome>>)
        /\ rv_overall_success' = (rv_overall_success /\ outcome = "True")
    /\ rv_pc' = "features"
    /\ UNCHANGED <<rv_docs_dir, rv_pages_dir, rv_ai_enhancer, rv_overview,
                   rv_overview_content, rv_result>>
    /\ UNCHANGED revrest

\* the same with self._update_homepage_features_with_ai
UpdateHomepageFeatures ==
    /\ rv_pc = "features"
    /\ \E outcome \in UpdateOutcomes :
        /\ rv_attempts' = Append(rv_attempts, <<"features", outcome>>)
        /\ rv_overall_success' = (rv_overall_success /\ outcome = "True")
    /\ rv_pc' = "config"
    /\ UNCHANGED <<rv_docs_dir, rv_pages_dir, rv_ai_enhancer, rv_overview,
                   rv_overview_content, rv_result>>
    /\ UNCHANGED revrest

\* the same with self._update_docusaurus_config_with_ai
UpdateDocusaurusConfig ==
    /\ rv_pc = "config"
    /\ \E outcome \in UpdateOutcomes :
        /\ rv_attempts' = Append(rv_attempts, <<"config", outcome>>)
        /\ rv_overall_success' = (rv_overall_success /\ outcome = "True")
    /\ rv_pc' = "figure"
    /\ UNCHANGED <<rv_docs_dir, rv_pages_dir, rv_ai_enhancer, rv_overview,
                   rv_overview_content, rv_result>>
    /\ UNCHANGED revrest

\* the same with self._update_main_figure_with_ai
UpdateMainFigure ==
    /\ rv_pc = "figure"
    /\ \E outcome \in UpdateOutcomes :
        /\ rv_attempts' = Append(rv_attempts, <<"figure", outcome>>)
        /\ rv_overall_success' = (rv_overall_success /\ outcome = "True")
    /\ rv_pc' = "return"
    /\ UNCHANGED <<rv_docs_dir, rv_pages_dir, rv_ai_enhancer, rv_overview,
                   rv_overview_content, rv_result>>
    /\ UNCHANGED revrest

\* if overall_success: return True  else: return True
ReviseReturn ==
    /\ rv_pc = "return"
    /\ rv_result' = "True"
    /\ rv_pc' = "done"
    /\ UNCHANGED <<rv_docs_dir, rv_pages_dir, rv_ai_enhancer, rv_overview,
                   rv_overview_content, rv_overall_success, rv_attempts>>
    /\ UNCHANGED revrest

ReviseNext ==
    \/ ReviseNoDocsDir
    \/ ReviseNoPagesDir
    \/ ReviseNoEnhancer
    \/ ReviseNoOverview
    \/ ReadOverview
    \/ ReviseNoContent
    \/ StartUpdates
    \/ UpdateIndexJs
    \/ UpdateHomepageFeatures
    \/ UpdateDocusaurusConfig
    \/ UpdateMainFigure
    \/ ReviseReturn

SpecRevise == ReviseInit /\ [][ReviseNext]_vars

\* The four updates in the order of the code.
UpdateNames == <<"index_js", "features", "config", "figure">>

\* The precondition checks of revise pass.
PreconditionsHold ==
    /\ rv_docs_dir
    /\ rv_pages_dir
    /\ rv_ai_enhancer
    /\ rv_overview.exists
    /\ rv_overview.readable
    /\ rv_overview.text # <<>>

\* C28: revise attempts the updates in the order index.js, HomepageFeatures,
\* docusaurus.config.js, main figure, each at most once; when its
\* precondition checks have passed, an update that returned False or raised
\* is followed by the next one, every call under way has a next step, and
\* the call returns True with all four attempted once; when a check fails it
\* returns False with none attempted.
C28_UpdatesIndependent ==
    /\ Len(rv_attempts) <= 4
    /\ \A n \in 1..Len(rv_attempts) : rv_attempts[n][1] = UpdateNames[n]
    /\ rv_pc = "index_js" => PreconditionsHold /\ ENABLED UpdateIndexJs
    /\ rv_pc = "features" => Len(rv_attempts) = 1 /\ ENABLED UpdateHomepageFeatures
    /\ rv_pc = "config" => Len(rv_attempts) = 2 /\ ENABLED UpdateDocusaurusConfig
    /\ rv_pc = "figure" => Len(rv_attempts) = 3 /\ ENABLED UpdateMainFigure
    /\ rv_pc = "return" => Len(rv_attempts) = 4 /\ ENABLED ReviseReturn
    /\ rv_pc \in {"call", "read"} =>
           /\ rv_attempts = <<>>
           /\ ENABLED (ReviseNoDocsDir \/ ReviseNoPagesDir \/ ReviseNoEnhancer
                         \/ ReviseNoOverview \/ ReadOverview \/ ReviseNoContent
                         \/ StartUpdates)
    /\ rv_pc = "done" =>
           IF PreconditionsHold
           THEN rv_result = "True" /\ Len(rv_attempts) = 4
           ELSE rv_result = "False" /\ rv_attempts = <<>>

\* A call has returned True after the first update raised, the second
\* returned False and the last two were still attempted.
C28_Witness ==
    /\ rv_pc = "done"
    /\ rv_result = "True"
    /\ Len(rv_attempts) = 4
    /\ rv_attempts[1] = <<"index_js", "raise">>
    /\ rv_attempts[2] = <<"features", "False">>
    /\ rv_attempts[4][1] = "figure"
    /\ ~rv_overall_success

====
